---------------------------- MODULE Spec2Model ----------------------------
(***************************************************************************)
(* Model of the IBEX 35 MCP server: the Remote Data Gateway (fetchAPI),    *)
(* the Query Facade (DatabaseManager), the Analytics Engine                *)
(* (AnalyticsManager) and the tool-call handler of the enhanced server.    *)
(*                                                                         *)
(* An asynchronous operation is modelled by replay: an operation is an     *)
(* operator over a run state s = [o, tr], where s.o is the sequence of     *)
(* HTTP responses the remote service has delivered to this invocation and  *)
(* not yet consumed, and s.tr the trace of what the code has done so far.  *)
(* It yields Ok(value), Throw(exception) or Wait (suspended at an `await   *)
(* fetch` whose response has not arrived).  The state machine delivers     *)
(* one response per step.                                                  *)
(*                                                                         *)
(* JavaScript numbers are modelled by exact integers and rationals         *)
(* [num, den]; strings the code inspects are sequences of characters.      *)
(***************************************************************************)
EXTENDS Integers, Sequences, FiniteSets, TLC

VARIABLES
  pc,        \* "idle" | "awaiting" | "done": position of the tool invocation
  tool,      \* request.params.name
  args,      \* request.params.arguments
  oracle,    \* HTTP responses delivered to the invocation so far, in order
  payload,   \* what the CallToolRequestSchema handler handed back
  input,     \* a function called directly: its arguments and remote data
  output     \* a function called directly: its result, once it has run

dispVars == <<pc, tool, args, oracle, payload>>
vars == <<pc, tool, args, oracle, payload, input, output>>

-----------------------------------------------------------------------------
(* Bounds of the model *)

\* HTTP responses the remote service delivers to one tool invocation
MaxReq == 5
\* companies in a company list
MaxCompanies == 2
\* sectors in a sector breakdown, the largest sector total, the largest factor
MaxSectors == 7
MaxCap == 4
MaxScale == 2

-----------------------------------------------------------------------------
(* JavaScript values *)

\* const v = value; ...: the expression a name is bound to is written once and
\* read by that name in what follows
Bind(value, Then(_)) == Then(value)
\* the same, the value computed before the body is entered
Strict(value, Then(_)) == CHOOSE r \in {Then(v) : v \in {value}} : TRUE

\* undefined / null / a missing property: the empty option
None == <<>>
Some(x) == <<x>>
IsSome(x) == x /= <<>>
Get(x) == x[1]

\* `x || d` on an optional number: undefined, null and 0 are falsy
OrDefault(x, d) == IF IsSome(x) /\ Get(x) /= 0 THEN Get(x) ELSE d

\* `new Error(msg)`; a message is a sequence of string fragments
Error(msg) == [name |-> "Error", msg |-> msg]
TypeError(msg) == [name |-> "TypeError", msg |-> msg]
SyntaxError(msg) == [name |-> "SyntaxError", msg |-> msg]

\* `${error}` / String(error) of an Error object: "<name>: <message>"
ErrToString(e) == <<e.name, ": ">> \o e.msg

\* `a || b` on optional numbers: a when truthy (defined and not 0), else b
OrNum(a, b) == IF IsSome(a) /\ Get(a) /= 0 THEN a ELSE b

\* `a || b` on optional strings and lists (an empty string is falsy, an empty
\* array is truthy); a list is never mistaken for the empty string here
OrStr(a, b) == IF IsSome(a) /\ Get(a) /= <<>> THEN a ELSE b
OrList(a, b) == IF IsSome(a) THEN a ELSE b

\* a number passed where a string is expected, and whether an optional value
\* has the methods of a string
ANumber == <<"#number">>
IsString(x) == IsSome(x) /\ Get(x) /= ANumber

\* truthiness of an optional string
TruthyStr(x) == IsSome(x) /\ Get(x) /= <<>>

\* Array.prototype.slice(0, n): a negative n counts from the end
SliceTo(seq, n) ==
  Bind(    IF n < 0 THEN (IF Len(seq) + n < 0 THEN 0 ELSE Len(seq) + n)
           ELSE (IF n < Len(seq) THEN n ELSE Len(seq)), LAMBDA e :
      SubSeq(seq, 1, e))

\* Array.prototype.filter
Filter(seq, Keep(_)) ==
  LET F[i \in 0..Len(seq)] ==
        IF i = 0 THEN <<>>
        ELSE F[i - 1] \o (IF Keep(seq[i]) THEN <<seq[i]>> ELSE <<>>)
  IN  F[Len(seq)]

\* Array.prototype.find: the first match, or undefined
Find(seq, Test(_)) ==
  Bind({i \in 1..Len(seq) : Test(seq[i])}, LAMBDA hits :
      IF hits = {} THEN None
      ELSE Some(seq[CHOOSE i \in hits : \A j \in hits : i <= j]))

\* Array.prototype.map
Map(seq, F(_)) == [i \in 1..Len(seq) |-> F(seq[i])]

\* Array.prototype.sort with a comparator: stable (ES2019); Before(a, b) iff
\* cmp(a, b) < 0.  Insertion sort: each element goes after its equals.
SortBy(seq, Before(_, _)) ==
  LET Ins(x, sorted) ==
        Bind({i \in 1..Len(sorted) : Before(x, sorted[i])}, LAMBDA later :
        Bind(     IF later = {} THEN Len(sorted) + 1
                  ELSE CHOOSE i \in later : \A j \in later : i <= j, LAMBDA at :
            SubSeq(sorted, 1, at - 1) \o <<x>> \o SubSeq(sorted, at, Len(sorted))))
      S[i \in 0..Len(seq)] == IF i = 0 THEN <<>> ELSE Ins(seq[i], S[i - 1])
  IN  S[Len(seq)]

-----------------------------------------------------------------------------
(* Run states and results of asynchronous code *)

Ok(v, s) == [k |-> "ok", v |-> v, s |-> s]
Throw(e, s) == [k |-> "err", v |-> e, s |-> s]
Wait(s) == [k |-> "wait", v |-> <<>>, s |-> s]

\* an event of the trace: of a call, arg holds the numeric and list arguments
\* and msg the string argument; of a request, arg holds its parameter
Event(ev, what, arg, msg) == [ev |-> ev, what |-> what, arg |-> arg, msg |-> msg]
Log(s, e) == [s EXCEPT !.tr = Append(@, e)]

Start(responses) == [o |-> responses, tr |-> <<>>]

-----------------------------------------------------------------------------
(* Strings: sequences of characters *)

UpperChars ==
  <<"A", "B", "C", "D", "E", "F", "G", "H", "I", "J", "K", "L", "M",
    "N", "O", "P", "Q", "R", "S", "T", "U", "V", "W", "X", "Y", "Z">>
LowerChars ==
  <<"a", "b", "c", "d", "e", "f", "g", "h", "i", "j", "k", "l", "m",
    "n", "o", "p", "q", "r", "s", "t", "u", "v", "w", "x", "y", "z">>

\* String.prototype.toLowerCase, character by character
LowerChar(c) ==
  IF \E i \in 1..Len(UpperChars) : UpperChars[i] = c
  THEN LowerChars[CHOOSE i \in 1..Len(UpperChars) : UpperChars[i] = c]
  ELSE c
toLowerCase(str) == [i \in 1..Len(str) |-> LowerChar(str[i])]

\* String.prototype.includes
includes(hay, needle) ==
  \E i \in 0..(Len(hay) - Len(needle)) : SubSeq(hay, i + 1, i + Len(needle)) = needle

\* Array.prototype.join
RECURSIVE join(_, _)
join(strs, sep) ==
  IF strs = <<>> THEN <<>>
  ELSE IF Len(strs) = 1 THEN strs[1]
  ELSE strs[1] \o sep \o join(Tail(strs), sep)

-----------------------------------------------------------------------------
(* Remote Data Gateway: DatabaseManager.fetchAPI *)

\* a parsed JSON response body: the keys the facade reads, each optional
NoBody ==
  [null |-> FALSE, data |-> None, directors |-> None, shareholderPositions |-> None,
   positions |-> None, historicalData |-> None, news |-> None, meetings |-> None,
   lobbying |-> None, reports |-> None]
\* the JSON value null
NullBody == [NoBody EXCEPT !.null = TRUE]

\* what the remote service does with one GET
HttpFail(status, statusText) ==
  [k |-> "http", status |-> status, statusText |-> statusText, body |-> NoBody]
NetFail == [k |-> "neterr", status |-> "", statusText |-> "", body |-> NoBody]
BadJson == [k |-> "badjson", status |-> "200", statusText |-> "OK", body |-> NoBody]
HttpOk(body) == [k |-> "ok", status |-> "200", statusText |-> "OK", body |-> body]

\* the catch block of fetchAPI: every failure is rethrown wrapped
fetchAPICatch(error) == Error(<<"API request failed: ">> \o ErrToString(error))

\* a fetch that, when the first GET fails, issues the same GET once more
fetchAPIRetry(endpoint, arg, s) ==
  Bind(     Log(Log(s, Event("fetchAPI", endpoint, arg, <<>>)),
                Event("GET", endpoint, arg, <<>>)), LAMBDA s1 :
  Bind(Head(s1.o), LAMBDA first :
  Bind(Log([s1 EXCEPT !.o = Tail(@)], Event("GET", endpoint, arg, <<>>)), LAMBDA s2 :
  Bind(IF first.k = "ok" THEN first ELSE Head(s2.o), LAMBDA resp :
  Bind(IF first.k = "ok" THEN [s1 EXCEPT !.o = Tail(@)] ELSE [s2 EXCEPT !.o = Tail(@)], LAMBDA s3 :
  Bind(fetchAPICatch(Error(<<"API request failed: ", resp.status, " ", resp.statusText>>)), LAMBDA e :
      IF s1.o = <<>> THEN Wait(s1)
      ELSE IF first.k /= "ok" /\ s2.o = <<>> THEN Wait(s2)
      ELSE IF resp.k = "ok"
      THEN Ok(resp.body, Log(s3, Event("fetchAPI.return", endpoint, arg, resp.body)))
      ELSE Throw(e, Log(s3, Event("fetchAPI.throw", endpoint, arg, e.msg)))))))))

\* One GET per call; a failure is rethrown wrapped, never retried.
fetchAPI(endpoint, arg, s) ==
  Bind(     Log(Log(s, Event("fetchAPI", endpoint, arg, <<>>)),
                Event("GET", endpoint, arg, <<>>)), LAMBDA s1 :
      IF s1.o = <<>> THEN Wait(s1)
      ELSE
        Bind(Head(s1.o), LAMBDA resp :
        Bind([s1 EXCEPT !.o = Tail(@)], LAMBDA s2 :
        Bind(
              CASE resp.k = "neterr" -> TypeError(<<"fetch failed">>)
                [] resp.k = "http" ->
                     Error(<<"API request failed: ", resp.status, " ", resp.statusText>>)
                [] OTHER -> SyntaxError(<<"Unexpected token">>), LAMBDA thrown :
            IF resp.k = "ok"
            THEN Ok(resp.body, Log(s2, Event("fetchAPI.return", endpoint, arg, resp.body)))
            ELSE Bind(fetchAPICatch(thrown), LAMBDA e :
                     Throw(e, Log(s2, Event("fetchAPI.throw", endpoint, arg, e.msg))))))))

\* reading property `key` of a response body: a TypeError on null
NullDeref == TypeError(<<"Cannot read properties of null">>)

-----------------------------------------------------------------------------
(* Query Facade: DatabaseManager (src/dist/database.js) *)

\* program constants
ScanCap == 20        \* getTopPerformers: companies.slice(0, 20)

\* exact rationals for JavaScript quotients; denominators are positive
Rat(n, d) == [num |-> n, den |-> d]
RatGt(x, y) == x.num * y.den > y.num * x.den
RatEq(x, y) == x.num * y.den = y.num * x.den

Abs(n) == IF n < 0 THEN -n ELSE n
RECURSIVE Gcd(_, _)
Gcd(a, b) == IF b = 0 THEN a ELSE Gcd(b, a % b)
\* a rational in lowest terms
Norm(x) ==
  Bind(Gcd(Abs(x.num), x.den), LAMBDA g :
      IF g = 0 THEN x ELSE Rat(x.num \div g, x.den \div g))
\* the sum over the least common denominator
RatAdd(x, y) ==
  Bind((x.den \div Gcd(x.den, y.den)) * y.den, LAMBDA l :
      Norm(Rat(x.num * (l \div x.den) + y.num * (l \div y.den), l)))
RatMul(x, y) == Norm(Rat(x.num * y.num, x.den * y.den))
RatDiv(x, y) == Norm(Rat(x.num * y.den, x.den * y.num))
\* Math.round of a non-negative rational: halves round up
Round(x) == (2 * x.num + x.den) \div (2 * x.den)

\* the distinct elements of a list, in order of first occurrence (the key
\* order of a Map or Set filled by the list)
Distinct(seq) ==
  LET D[i \in 0..Len(seq)] ==
        IF i = 0 THEN <<>>
        ELSE IF \E j \in 1..(i - 1) : seq[j] = seq[i] THEN D[i - 1]
             ELSE Append(D[i - 1], seq[i])
  IN  D[Len(seq)]

RECURSIVE SumSeq(_)
SumSeq(ns) == IF ns = <<>> THEN 0 ELSE Head(ns) + SumSeq(Tail(ns))

getAllCompanies(s) ==
  Bind(fetchAPI("/api/companies", <<>>, Log(s, Event("call", "getAllCompanies", <<>>, <<>>))), LAMBDA r :
      IF r.k /= "ok" THEN r
      ELSE IF r.v.null THEN Throw(NullDeref, r.s)
      ELSE Ok(Get(OrList(r.v.data, Some(<<>>))), r.s))

\* symbol: optional string (undefined when the argument is missing)
getCompanyBySymbol(symbol, s) ==
  Bind(getAllCompanies(Log(s, Event("call", "getCompanyBySymbol", <<>>, symbol))), LAMBDA r :
      IF r.k /= "ok" THEN r
      ELSE Ok(Find(r.v, LAMBDA company : Some(company.symbol) = symbol), r.s))

\* a filter that compares without lower-casing either side
SectorMatchesCaseSensitive(company, sector) ==
  TruthyStr(company.sector) /\ includes(Get(company.sector), sector)

\* the filter predicate of getCompaniesBySector, for a sector string
SectorMatches(company, sector) ==
  TruthyStr(company.sector)
    /\ includes(toLowerCase(Get(company.sector)), toLowerCase(sector))

\* companies.filter(...) of getCompaniesBySector: sector.toLowerCase() is
\* reached, and throws on undefined, only for a company with a sector
FilterBySector(companies, sector) ==
  Filter(companies, LAMBDA company : SectorMatches(company, Get(sector)))

getCompaniesBySector(sector, s) ==
  Bind(getAllCompanies(Log(s, Event("call", "getCompaniesBySector", <<>>, sector))), LAMBDA r :
      IF r.k /= "ok" THEN r
      ELSE IF ~IsString(sector) /\ \E i \in 1..Len(r.v) : TruthyStr(r.v[i].sector)
           THEN Throw(TypeError(<<"sector.toLowerCase is not a function">>), r.s)
      ELSE IF ~IsString(sector) THEN Ok(<<>>, r.s)
      ELSE Ok(FilterBySector(r.v, sector), r.s))

\* the filter predicate of getCompaniesWithPERatio
PEInRange(company, minPE, maxPE) ==
  Bind(OrNum(company.price_to_earnings, company.pe_ratio), LAMBDA pe :
      /\ IsSome(pe)
      /\ ~(IsSome(minPE) /\ Get(pe) < Get(minPE))
      /\ ~(IsSome(maxPE) /\ Get(pe) > Get(maxPE)))

getCompaniesWithPERatio(minPE, maxPE, s) ==
  Bind(getAllCompanies(Log(s, Event("call", "getCompaniesWithPERatio", <<>>, <<>>))), LAMBDA r :
      IF r.k /= "ok" THEN r
      ELSE Ok(Filter(r.v, LAMBDA company : PEInRange(company, minPE, maxPE)), r.s))

getCompanyDirectors(companyId, s) ==
  Bind(fetchAPI("/api/network", <<>>, Log(s, Event("call", "getCompanyDirectors", <<>>, companyId))), LAMBDA r :
      IF r.k /= "ok" THEN r
      ELSE IF r.v.null THEN Throw(NullDeref, r.s)
      ELSE Ok(Filter(Get(OrList(r.v.directors, Some(<<>>))),
                     LAMBDA director : director.company_id = companyId), r.s))

\* allDirectors of getBoardInterlocks: every embedded director, tagged with
\* its company
RECURSIVE AllDirectors(_)
AllDirectors(companies) ==
  IF companies = <<>> THEN <<>>
  ELSE Bind(Head(companies), LAMBDA company :
       Bind(      IF IsSome(company.directors)
                  THEN [i \in 1..Len(Get(company.directors)) |->
                          [name |-> Get(company.directors)[i].name,
                           position |-> Get(company.directors)[i].position,
                           company_name |-> company.name,
                           company_symbol |-> company.ticker]]
                  ELSE <<>>, LAMBDA own :
           own \o AllDirectors(Tail(companies))))

\* one Interlock record, from the directorMap entry of `name`
Interlock(name, directorList) ==
  [director_name |-> name,
   companies |-> join([i \in 1..Len(directorList) |-> directorList[i].company_name],
                      <<",", " ">>),
   board_count |-> Len(directorList),
   positions |-> join([i \in 1..Len(directorList) |->
                         directorList[i].company_name \o <<" ", "(">>
                           \o directorList[i].position \o <<")">>],
                      <<";", " ">>)]

\* the body of getBoardInterlocks after the company list has arrived
BoardInterlocks(companies) ==
  Bind(AllDirectors(companies), LAMBDA allDirectors :
  Bind(Distinct([i \in 1..Len(allDirectors) |-> allDirectors[i].name]), LAMBDA names :
  Bind(          [i \in 1..Len(names) |->
                    Filter(allDirectors, LAMBDA director : director.name = names[i])], LAMBDA entries :
  Bind([i \in 1..Len(names) |-> Interlock(names[i], entries[i])], LAMBDA interlocks :
      SortBy(Filter(interlocks, LAMBDA il : il.board_count > 1),
             LAMBDA a, b : b.board_count - a.board_count < 0)))))

getBoardInterlocks(s) ==
  Bind(getAllCompanies(Log(s, Event("call", "getBoardInterlocks", <<>>, <<>>))), LAMBDA r :
      IF r.k /= "ok" THEN r ELSE Ok(BoardInterlocks(r.v), r.s))

\* name: optional string
getDirectorsByName(name, s) ==
  Bind(fetchAPI("/api/network", <<>>, Log(s, Event("call", "getDirectorsByName", <<>>, name))), LAMBDA r :
  Bind(Get(OrList(r.v.directors, Some(<<>>))), LAMBDA directors :
      IF r.k /= "ok" THEN r
      ELSE IF r.v.null THEN Throw(NullDeref, r.s)
      ELSE IF ~IsString(name) /\ \E i \in 1..Len(directors) : TruthyStr(Some(directors[i].name))
           THEN Throw(TypeError(<<"name.toLowerCase is not a function">>), r.s)
      ELSE IF ~IsString(name) THEN Ok(<<>>, r.s)
      ELSE Ok(Filter(directors, LAMBDA director :
                       director.name /= <<>>
                         /\ includes(toLowerCase(director.name), toLowerCase(Get(name)))),
              r.s)))

\* data.shareholderPositions || data.positions || []
PositionsOf(body) == Get(OrList(OrList(body.shareholderPositions, body.positions), Some(<<>>)))

\* companies.find(c => c.id === companyId)
FindById(companies, companyId) ==
  Find(companies, LAMBDA c : Some(c.id) = companyId)

getCompanyShareholders(companyId, s) ==
  Bind(    fetchAPI("/api/shareholder-positions", <<>>,
                    Log(s, Event("call", "getCompanyShareholders", <<>>, companyId))), LAMBDA r :
  Bind(getAllCompanies(r.s), LAMBDA c :
  Bind(FindById(c.v, companyId), LAMBDA company :
      IF r.k /= "ok" THEN r
      ELSE IF r.v.null THEN Throw(NullDeref, r.s)
      ELSE IF c.k /= "ok" THEN c
      ELSE IF ~IsSome(company) THEN Ok(<<>>, c.s)
      ELSE Ok(Filter(PositionsOf(r.v), LAMBDA position :
                       position.company_symbol = Some(Get(company).symbol)
                         \/ position.ticker = Some(Get(company).symbol)),
              c.s))))

getTopShareholdersBySector(sector, limit, s) ==
  Bind(getCompaniesBySector(sector, Log(s, Event("call", "getTopShareholdersBySector", <<limit>>, sector))), LAMBDA c :
  Bind(fetchAPI("/api/shareholder-positions", <<>>, c.s), LAMBDA r :
  Bind({c.v[i].symbol : i \in 1..Len(c.v)}, LAMBDA sectorSymbols :
  Bind(
        Filter(PositionsOf(r.v), LAMBDA position :
                 Bind(OrStr(position.company_symbol, position.ticker), LAMBDA sym :
                     IsSome(sym) /\ Get(sym) \in sectorSymbols)), LAMBDA sectorShareholders :
      IF c.k /= "ok" THEN c
      ELSE IF r.k /= "ok" THEN r
      ELSE IF r.v.null THEN Throw(NullDeref, r.s)
      ELSE Ok(SliceTo(SortBy(sectorShareholders, LAMBDA a, b :
                               OrDefault(b.percentage, 0) - OrDefault(a.percentage, 0) < 0),
                      limit),
              r.s)))))

\* one overlap record, from the shareholderMap entry of `name`
Overlap(name, held) ==
  Bind(            Filter([i \in 1..Len(held) |-> OrStr(held[i].company_symbol, held[i].ticker)],
                          LAMBDA sym : TruthyStr(sym)), LAMBDA companies :
      [shareholder_name |-> name,
       companies |-> join([i \in 1..Len(companies) |-> Get(companies[i])], <<",">>),
       company_count |-> Len(companies),
       avg_percentage |-> Rat(SumSeq([i \in 1..Len(held) |-> OrDefault(held[i].percentage, 0)]),
                              Len(held))])

\* the body of getShareholderOverlap after the positions have arrived
ShareholderOverlap(shareholders) ==
  LET named == Filter(shareholders, LAMBDA position :
                        TruthyStr(OrStr(position.shareholder_name, position.name)))
      NameOf(position) == Get(OrStr(position.shareholder_name, position.name))
      names == Distinct([i \in 1..Len(named) |-> NameOf(named[i])])
      overlaps == [i \in 1..Len(names) |->
                     Filter(named, LAMBDA position : NameOf(position) = names[i])]
  IN  SortBy([i \in 1..Len(Filter(overlaps, LAMBDA held : Len(held) > 1)) |->
                Bind(Filter(overlaps, LAMBDA h : Len(h) > 1)[i], LAMBDA held :
                    Overlap(NameOf(held[1]), held))],
             LAMBDA a, b : b.company_count - a.company_count < 0)

getShareholderOverlap(s) ==
  Bind(    fetchAPI("/api/shareholder-positions", <<>>,
                    Log(s, Event("call", "getShareholderOverlap", <<>>, <<>>))), LAMBDA r :
      IF r.k /= "ok" THEN r
      ELSE IF r.v.null THEN Throw(NullDeref, r.s)
      ELSE Ok(ShareholderOverlap(PositionsOf(r.v)), r.s))

\* companyId: optional string; days is only forwarded as a query parameter
getHistoricalPrices(companyId, days, s) ==
  Bind(getAllCompanies(Log(s, Event("call", "getHistoricalPrices", <<days>>, companyId))), LAMBDA c :
  Bind(FindById(c.v, companyId), LAMBDA company :
  Bind(fetchAPI("/api/historical-prices/company", Get(company).symbol, c.s), LAMBDA r :
      IF c.k /= "ok" THEN c
      ELSE IF ~IsSome(company) THEN Ok(<<>>, c.s)
      ELSE IF r.k /= "ok" THEN r
      ELSE IF r.v.null THEN Throw(NullDeref, r.s)
      ELSE Ok(Get(OrList(r.v.historicalData, Some(<<>>))), r.s))))

\* the entry getTopPerformers pushes for a company with >= 2 price points;
\* closes are positive
Performance(company, historical) ==
  Bind(historical[1], LAMBDA recent :
  Bind(historical[Len(historical)], LAMBDA old :
      [symbol |-> company.symbol, name |-> company.name, sector |-> company.sector,
       current_price |-> recent.close,
       period_change |-> Rat((recent.close - old.close) * 100, old.close)]))

\* a loop without the try/catch: the first failed lookup ends the operation
RECURSIVE TopPerformersLoopAborting(_, _, _, _)
TopPerformersLoopAborting(companies, days, performances, s) ==
  IF companies = <<>> THEN Ok(performances, s)
  ELSE Bind(Head(companies), LAMBDA company :
       Bind(getHistoricalPrices(Some(company.id), days, s), LAMBDA h :
           IF h.k /= "ok" THEN h
           ELSE TopPerformersLoopAborting(Tail(companies), days,
                  IF Len(h.v) >= 2 THEN Append(performances, Performance(company, h.v))
                  ELSE performances,
                  h.s)))

\* the for loop of getTopPerformers: a failed lookup is caught and skipped
RECURSIVE TopPerformersLoop(_, _, _, _)
TopPerformersLoop(companies, days, performances, s) ==
  IF companies = <<>> THEN Ok(performances, s)
  ELSE Bind(Head(companies), LAMBDA company :
       Bind(getHistoricalPrices(Some(company.id), days, s), LAMBDA h :
           CASE h.k = "wait" -> h
             [] h.k = "err" -> TopPerformersLoop(Tail(companies), days, performances, h.s)
             [] OTHER ->
                  TopPerformersLoop(Tail(companies), days,
                    IF Len(h.v) >= 2 THEN Append(performances, Performance(company, h.v))
                    ELSE performances,
                    h.s)))

\* performances.sort((a, b) => b.period_change - a.period_change).slice(0, limit)
RankPerformances(performances, limit) ==
  SliceTo(SortBy(performances, LAMBDA a, b : RatGt(a.period_change, b.period_change)), limit)

getTopPerformers(days, limit, s) ==
  Bind(getAllCompanies(Log(s, Event("call", "getTopPerformers", <<days, limit>>, <<>>))), LAMBDA c :
  Bind(TopPerformersLoop(SliceTo(c.v, ScanCap), days, <<>>, c.s), LAMBDA p :
      IF c.k /= "ok" THEN c
      ELSE IF p.k /= "ok" THEN p
      ELSE Ok(RankPerformances(p.v, limit), p.s)))

getRecentNews(companyId, limit, s) ==
  Bind(Log(s, Event("call", "getRecentNews", <<limit>>, companyId)), LAMBDA s0 :
  Bind(getAllCompanies(s0), LAMBDA c :
  Bind(FindById(c.v, companyId), LAMBDA company :
  Bind(    IF TruthyStr(companyId)
           THEN fetchAPI("/api/news/company", Get(company).symbol, c.s)
           ELSE fetchAPI("/api/news", <<>>, s0), LAMBDA r :
      IF TruthyStr(companyId) /\ c.k /= "ok" THEN c
      ELSE IF TruthyStr(companyId) /\ ~IsSome(company) THEN Ok(<<>>, c.s)
      ELSE IF r.k /= "ok" THEN r
      ELSE IF r.v.null THEN Throw(NullDeref, r.s)
      ELSE Ok(Get(OrList(r.v.news, Some(<<>>))), r.s)))))

getNewsBySentiment(sentiment, limit, s) ==
  Bind(    fetchAPI("/api/news/sentiment", <<>>,
                    Log(s, Event("call", "getNewsBySentiment", <<limit>>, sentiment))), LAMBDA r :
      IF r.k /= "ok" THEN r
      ELSE IF r.v.null THEN Throw(NullDeref, r.s)
      ELSE Ok(Get(OrList(r.v.news, Some(<<>>))), r.s))

\* data.meetings || data.lobbying || []
MeetingsOf(body) == Get(OrList(OrList(body.meetings, body.lobbying), Some(<<>>)))

getLobbyingMeetings(companyId, limit, s) ==
  Bind(    fetchAPI("/api/lobbying", <<>>,
                    Log(s, Event("call", "getLobbyingMeetings", <<limit>>, companyId))), LAMBDA r :
  Bind(getAllCompanies(r.s), LAMBDA c :
  Bind(FindById(c.v, companyId), LAMBDA company :
      IF r.k /= "ok" THEN r
      ELSE IF r.v.null THEN Throw(NullDeref, r.s)
      ELSE IF ~TruthyStr(companyId) THEN Ok(MeetingsOf(r.v), r.s)
      ELSE IF c.k /= "ok" THEN c
      ELSE IF ~IsSome(company) THEN Ok(<<>>, c.s)
      ELSE Ok(Filter(MeetingsOf(r.v), LAMBDA meeting :
                       TruthyStr(meeting.organization_name)
                         /\ includes(toLowerCase(Get(meeting.organization_name)),
                                     toLowerCase(Get(company).name))),
              c.s))))

\* one entry of getMostActiveLobbyists, from the meetings of organization org
Lobbyist(org, meetings) ==
  Bind(Filter(meetings, LAMBDA m : m.organization_name = Some(org)), LAMBDA own :
  Bind(       Distinct([i \in 1..Len(Filter(own, LAMBDA m : TruthyStr(m.eu_institution))) |->
                          Get(Filter(own, LAMBDA m : TruthyStr(m.eu_institution))[i].eu_institution)]), LAMBDA inst :
  Bind(           [i \in 1..Len(Filter(own, LAMBDA m : OrDefault(m.quarterly_spending, 0) /= 0)) |->
                     Get(Filter(own, LAMBDA m : OrDefault(m.quarterly_spending, 0) /= 0)[i].quarterly_spending)], LAMBDA spending :
      [organization_name |-> org, meeting_count |-> Len(own),
       institutions |-> join(inst, <<",">>), spending |-> spending,
       avg_spending |-> IF Len(spending) > 0 THEN Some(Rat(SumSeq(spending), Len(spending)))
                        ELSE None])))

getMostActiveLobbyists(limit, s) ==
  Bind(    fetchAPI("/api/lobbying", <<>>,
                    Log(s, Event("call", "getMostActiveLobbyists", <<limit>>, <<>>))), LAMBDA r :
  Bind(MeetingsOf(r.v), LAMBDA meetings :
  Bind(Filter(meetings, LAMBDA m : TruthyStr(m.organization_name)), LAMBDA named :
  Bind(Distinct([i \in 1..Len(named) |-> Get(named[i].organization_name)]), LAMBDA orgs :
      IF r.k /= "ok" THEN r
      ELSE IF r.v.null THEN Throw(NullDeref, r.s)
      ELSE Ok(SliceTo(SortBy([i \in 1..Len(orgs) |-> Lobbyist(orgs[i], meetings)],
                             LAMBDA a, b : b.meeting_count - a.meeting_count < 0),
                      limit),
              r.s)))))

getWeeklyReports(reportType, limit, s) ==
  Bind(    fetchAPI("/api/reports", <<>>,
                    Log(s, Event("call", "getWeeklyReports", <<limit>>, reportType))), LAMBDA r :
      IF r.k /= "ok" THEN r
      ELSE IF r.v.null THEN Throw(NullDeref, r.s)
      ELSE Ok(Get(OrList(r.v.reports, Some(<<>>))), r.s))

\* ESG data is not available: an empty list, no request
getESGScores(companyId, s) ==
  Ok(<<>>, Log(s, Event("call", "getESGScores", <<>>, companyId)))

\* a custom query that forwards a string to the remote service
executeCustomQueryForwarding(sql, params, s) ==
  IF IsString(sql)
  THEN fetchAPI("/api/query", Get(sql), Log(s, Event("call", "executeCustomQuery", <<params>>, sql)))
  ELSE Throw(Error(<<"Custom SQL queries are not supported via the Cloudflare Worker API. ",
                     "Please use the specific endpoints available.">>),
             Log(s, Event("call", "executeCustomQuery", <<params>>, sql)))

\* always throws, whatever sql and params are; no request
executeCustomQuery(sql, params, s) ==
  Throw(Error(<<"Custom SQL queries are not supported via the Cloudflare Worker API. ",
                "Please use the specific endpoints available.">>),
        Log(s, Event("call", "executeCustomQuery", <<params>>, sql)))

-----------------------------------------------------------------------------
(* Analytics Engine: AnalyticsManager (src/dist/analytics.d.ts and the       *)
(* TypeScript source in src/ENHANCED_FEATURES.md).  Market caps are counted  *)
(* in units of 1e8 EUR.                                                      *)

\* program constants
IndexSize == 35              \* network_density = totalInterlocks / 35
DominanceCap == 500          \* market_cap > 50000000000
InterlockFlagAbove == 3      \* companyInterlocks.length > 3
HighlyAbove == 2500          \* hhi > 2500
ModeratelyAbove == 1500      \* hhi > 1500
HhiScale == 10000            \* share * share * 10000

calculateDirectorNetworkMetrics(interlocks) ==
  [total_interlocks |-> Len(interlocks),
   interlocked_directors |-> SliceTo(interlocks, 10),
   most_connected_directors |-> SliceTo(SliceTo(interlocks, 10), 5),
   network_density |-> IF Len(interlocks) > 0 THEN Rat(Len(interlocks), IndexSize)
                       ELSE Rat(0, 1)]

calculateShareholderNetworkMetrics(overlaps) ==
  [multi_company_shareholders |-> overlaps,
   cross_sector_investors |-> Filter(overlaps, LAMBDA o : o.company_count > 2),
   total_overlap_connections |-> Len(overlaps),
   average_holdings_per_investor |->
     IF Len(overlaps) > 0
     THEN Rat(SumSeq([i \in 1..Len(overlaps) |-> overlaps[i].company_count]), Len(overlaps))
     ELSE Rat(0, 1)]

\* interlocks.filter(interlock => interlock.companies.includes(company.symbol))
CompanyInterlocks(company, interlocks) ==
  Filter(interlocks, LAMBDA interlock : includes(interlock.companies, company.symbol))

\* the red flags one company contributes, in push order
RedFlagsOf(company, interlocks) ==
  (IF Len(CompanyInterlocks(company, interlocks)) > InterlockFlagAbove
   THEN <<[company |-> company.symbol, risk_type |-> "high_director_interlocks",
           count |-> Len(CompanyInterlocks(company, interlocks)), severity |-> "medium"]>>
   ELSE <<>>)
  \o
  (IF OrDefault(company.market_cap, 0) /= 0 /\ Get(company.market_cap) > DominanceCap
   THEN <<[company |-> company.symbol, risk_type |-> "market_dominance",
           count |-> 0, severity |-> "low"]>>
   ELSE <<>>)

SeverityRank(flag) ==
  IF flag.severity = "high" THEN 3 ELSE IF flag.severity = "medium" THEN 2 ELSE 1

RECURSIVE RedFlags(_, _)
RedFlags(companies, interlocks) ==
  IF companies = <<>> THEN <<>>
  ELSE RedFlagsOf(Head(companies), interlocks) \o RedFlags(Tail(companies), interlocks)

getGovernanceRiskFactors(companies, interlocks) ==
  Bind(RedFlags(companies, interlocks), LAMBDA redFlags :
      [governance_red_flags |->
         SortBy(redFlags, LAMBDA a, b : SeverityRank(b) - SeverityRank(a) < 0),
       total_red_flags |-> Len(redFlags),
       high_risk_companies |-> Len(Filter(redFlags, LAMBDA f : f.severity = "high"))])

getComplexNetworkAnalysis(s) ==
  Bind(getAllCompanies(Log(s, Event("call", "getComplexNetworkAnalysis", <<>>, <<>>))), LAMBDA c :
  Bind(getBoardInterlocks(c.s), LAMBDA d :
  Bind(getShareholderOverlap(d.s), LAMBDA h :
      IF c.k /= "ok" THEN c
      ELSE IF d.k /= "ok" THEN d
      ELSE IF h.k /= "ok" THEN h
      ELSE Ok([director_network |-> calculateDirectorNetworkMetrics(d.v),
               shareholder_network |-> calculateShareholderNetworkMetrics(h.v),
               cross_ownership_analysis |-> h.v,
               governance_risk_factors |-> getGovernanceRiskFactors(c.v, d.v)],
              h.s))))

\* one sector_performance entry, from the sectorMap entry of `sector`
SectorEntry(sector, sectorCompanies) ==
  LET withCap == Filter(sectorCompanies, LAMBDA c : OrDefault(c.market_cap, 0) /= 0)
      totalMarketCap == SumSeq([i \in 1..Len(withCap) |-> Get(withCap[i].market_cap)])
      PeOf(c) == OrNum(c.price_to_earnings, c.pe_ratio)
      withPE == Filter(sectorCompanies, LAMBDA c : OrDefault(PeOf(c), 0) /= 0)
      avgPE == SumSeq([i \in 1..Len(withPE) |-> Get(PeOf(withPE[i]))])
  IN  [sector |-> sector,
       company_count |-> Len(sectorCompanies),
       total_market_cap |-> totalMarketCap,
       avg_market_cap |-> IF Len(withCap) > 0 THEN Rat(totalMarketCap, Len(withCap))
                          ELSE Rat(0, 1),
       avg_pe_ratio |-> IF Len(withPE) > 0 THEN Some(Rat(avgPE, Len(withPE))) ELSE None,
       companies |-> [i \in 1..Len(SliceTo(sectorCompanies, 5)) |->
                        [symbol |-> sectorCompanies[i].symbol,
                         name |-> sectorCompanies[i].name,
                         market_cap |-> sectorCompanies[i].market_cap]]]

\* a grouping that makes one entry per company instead of one per sector
SectorPerformancePerCompany(companies) ==
  Bind(Filter(companies, LAMBDA c : TruthyStr(c.sector)), LAMBDA withSector :
      SortBy([i \in 1..Len(withSector) |->
                SectorEntry(Get(withSector[i].sector), <<withSector[i]>>)],
             LAMBDA a, b : b.total_market_cap - a.total_market_cap < 0))

\* sectorPerformance of getSectorCorrelationAnalysis, sorted by total market cap
SectorPerformance(companies) ==
  Bind(Filter(companies, LAMBDA c : TruthyStr(c.sector)), LAMBDA withSector :
  Bind(Distinct([i \in 1..Len(withSector) |-> Get(withSector[i].sector)]), LAMBDA sectors :
      SortBy([i \in 1..Len(sectors) |->
                SectorEntry(sectors[i],
                            Filter(withSector, LAMBDA c : Get(c.sector) = sectors[i]))],
             LAMBDA a, b : b.total_market_cap - a.total_market_cap < 0)))

\* a reduce that squares the sector totals without dividing by the combined total
HhiSumOfTotals(sectorPerformance, totalMarketCap) ==
  Rat(SumSeq([i \in 1..Len(sectorPerformance) |->
                sectorPerformance[i].total_market_cap
                  * sectorPerformance[i].total_market_cap * HhiScale]), 1)

\* the reduce that computes hhi in calculateMarketConcentration
RECURSIVE HhiSum(_, _)
HhiSum(sectorPerformance, totalMarketCap) ==
  IF sectorPerformance = <<>> THEN Rat(0, 1)
  ELSE Bind(Len(sectorPerformance), LAMBDA n :
       Bind(Norm(Rat(sectorPerformance[n].total_market_cap, totalMarketCap)), LAMBDA share :
           RatAdd(HhiSum(SubSeq(sectorPerformance, 1, n - 1), totalMarketCap),
                  RatMul(RatMul(share, share), Rat(HhiScale, 1)))))

\* buckets whose thresholds are inclusive
ConcentrationLevelInclusive(hhi) ==
  IF ~RatGt(Rat(HighlyAbove, 1), hhi) THEN "highly_concentrated"
  ELSE IF ~RatGt(Rat(ModeratelyAbove, 1), hhi) THEN "moderately_concentrated"
  ELSE "competitive"

\* the concentration bucket of an hhi value
ConcentrationLevel(hhi) ==
  IF RatGt(hhi, Rat(HighlyAbove, 1)) THEN "highly_concentrated"
  ELSE IF RatGt(hhi, Rat(ModeratelyAbove, 1)) THEN "moderately_concentrated"
  ELSE "competitive"

RECURSIVE ShareSum(_, _)
ShareSum(sectorPerformance, totalMarketCap) ==
  IF sectorPerformance = <<>> THEN Rat(0, 1)
  ELSE RatAdd(ShareSum(SubSeq(sectorPerformance, 1, Len(sectorPerformance) - 1), totalMarketCap),
              Norm(Rat(sectorPerformance[Len(sectorPerformance)].total_market_cap,
                       totalMarketCap)))

calculateMarketConcentration(sectorPerformance) ==
  Bind(
        SumSeq([i \in 1..Len(sectorPerformance) |-> sectorPerformance[i].total_market_cap]), LAMBDA totalMarketCap :
  Bind(HhiSum(sectorPerformance, totalMarketCap), LAMBDA hhi :
      IF totalMarketCap = 0
      THEN [hhi_index |-> 0, concentration_level |-> "unknown", top_3_market_share |-> None]
      ELSE [hhi_index |-> Round(hhi),
            concentration_level |-> ConcentrationLevel(hhi),
            top_3_market_share |->
              Some(RatMul(ShareSum(SliceTo(sectorPerformance, 3), totalMarketCap),
                          Rat(100, 1)))]))

SectorCorrelation(companies, days) ==
  Bind(SectorPerformance(companies), LAMBDA sectorPerformance :
      [period_days |-> days,
       sector_performance |-> sectorPerformance,
       total_sectors |-> Len(sectorPerformance),
       largest_sector |-> IF sectorPerformance /= <<>> THEN sectorPerformance[1].sector
                          ELSE <<"U", "n", "k", "n", "o", "w", "n">>,
       market_concentration |-> calculateMarketConcentration(sectorPerformance)])

getSectorCorrelationAnalysis(days, s) ==
  Bind(getAllCompanies(Log(s, Event("call", "getSectorCorrelationAnalysis", <<days>>, <<>>))), LAMBDA r :
      IF r.k /= "ok" THEN r ELSE Ok(SectorCorrelation(r.v, days), r.s))

-----------------------------------------------------------------------------
(* Analytics Engine, enhanced operations: the TypeScript source of           *)
(* AnalyticsManager in src/ENHANCED_FEATURES.md                              *)

\* program constants
PerformanceScanCap == 10     \* analyzeCompanyPerformances: companies.slice(0, 10)
LargeBoardAbove == 15        \* directors.length > 15
SmallCapBelow == 10          \* market_cap < 1000000000
TradingDays == 252           \* Math.sqrt(252)

\* 0 / 0
NaN == Rat(0, 0)
IsNaN(x) == x.den = 0
RatSub(x, y) == RatAdd(x, Rat(-y.num, y.den))
RECURSIVE RatSum(_)
\* the exact sum, halves first (addition of rationals is associative)
RatSum(xs) ==
  IF xs = <<>> THEN Rat(0, 1)
  ELSE IF Len(xs) = 1 THEN RatAdd(xs[1], Rat(0, 1))
  ELSE Strict(RatSum(SubSeq(xs, 1, Len(xs) \div 2)), LAMBDA left :
       Strict(RatSum(SubSeq(xs, (Len(xs) \div 2) + 1, Len(xs))), LAMBDA right :
           RatAdd(left, right)))
\* sum / length: NaN for an empty list
Mean(xs) ==
  IF xs = <<>> THEN NaN
  ELSE Strict(RatSum(xs), LAMBDA total : RatDiv(total, Rat(Len(xs), 1)))
\* `x || 0` on a number that may be NaN
OrZero(x) == IF IsNaN(x) THEN Rat(0, 1) ELSE x

\* Array.prototype.reduce without an initial value, keeping `current` when
\* Better(current, best)
ReduceBest(seq, Better(_, _)) ==
  LET B[i \in 1..Len(seq)] ==
        IF i = 1 THEN seq[1]
        ELSE IF Better(seq[i], B[i - 1]) THEN seq[i] ELSE B[i - 1]
  IN  B[Len(seq)]

\* Math.sqrt(variance) * Math.sqrt(252), kept as the number under the root
calculateVolatility(prices) ==
  IF Len(prices) < 2 THEN [sqrt_of |-> Rat(0, 1)]
  ELSE Strict(        [i \in 1..(Len(prices) - 1) |->
                         Norm(Rat(prices[i].close - prices[i + 1].close, prices[i + 1].close))], LAMBDA returns :
       Strict(Mean(returns), LAMBDA mean :
       Strict(         Mean([i \in 1..Len(returns) |->
                               RatMul(RatSub(returns[i], mean), RatSub(returns[i], mean))]), LAMBDA variance :
           [sqrt_of |-> RatMul(variance, Rat(TradingDays, 1))])))

\* the entry analyzeCompanyPerformances pushes for a company with >= 2 points
ScanEntry(company, historical) ==
  [symbol |-> company.symbol, name |-> company.name, sector |-> company.sector,
   period_change |-> Performance(company, historical).period_change,
   current_price |-> historical[1].close,
   volatility |-> calculateVolatility(historical)]

\* the for loop of analyzeCompanyPerformances: a failed lookup is caught and
\* the company skipped
RECURSIVE CompanyPerformancesLoop(_, _, _, _)
CompanyPerformancesLoop(companies, period, performances, s) ==
  IF companies = <<>> THEN Ok(performances, s)
  ELSE Bind(Head(companies), LAMBDA company :
       Bind(getHistoricalPrices(Some(company.id), period, s), LAMBDA h :
           CASE h.k = "wait" -> h
             [] h.k = "err" ->
                  CompanyPerformancesLoop(Tail(companies), period, performances, h.s)
             [] OTHER ->
                  CompanyPerformancesLoop(Tail(companies), period,
                    IF Len(h.v) >= 2 THEN Append(performances, ScanEntry(company, h.v))
                    ELSE performances,
                    h.s)))

analyzeCompanyPerformances(companies, period, s) ==
  Bind(    CompanyPerformancesLoop(SliceTo(companies, PerformanceScanCap), period, <<>>,
                                   Log(s, Event("call", "analyzeCompanyPerformances", <<>>, <<>>))), LAMBDA p :
      IF p.k /= "ok" THEN p
      ELSE Ok(SortBy(p.v, LAMBDA a, b :
                       RatGt(OrZero(a.period_change), OrZero(b.period_change))),
              p.s))

\* null for fewer than 2 points
calculatePerformance(historical) ==
  IF Len(historical) < 2 THEN None
  ELSE Some([period_change |->
               Rat((historical[1].close - historical[Len(historical)].close) * 100,
                   historical[Len(historical)].close),
             current_price |-> historical[1].close,
             starting_price |-> historical[Len(historical)].close,
             volatility |-> calculateVolatility(historical)])

assessCompanyRisk(company, directors) ==
  IF ~IsSome(OrNum(company.price_to_earnings, None)) /\ ~IsSome(OrNum(company.pe_ratio, None))
  THEN "high"
  ELSE IF OrDefault(company.market_cap, 0) = 0 \/ Get(company.market_cap) < SmallCapBelow
  THEN "medium"
  ELSE IF Len(directors) > LargeBoardAbove THEN "medium"
  ELSE "low"

\* an element of companyData: either the analysis of a company or an inline
\* error; a property that is absent is None
NoEntry ==
  [symbol |-> None, error |-> None, basic_info |-> None, directors |-> None,
   shareholders |-> None, recent_performance |-> None, news_coverage |-> None,
   risk_profile |-> None]

\* `current.recent_performance?.period_change || -Infinity`: None is -Infinity
PerformanceOrMinusInfinity(entry) ==
  IF IsSome(entry.recent_performance)
       /\ Get(entry.recent_performance).period_change.num /= 0
  THEN Some(Get(entry.recent_performance).period_change)
  ELSE None
\* a > b where None is -Infinity
GreaterPerformance(a, b) ==
  IsSome(a) /\ (~IsSome(b) \/ RatGt(Get(a), Get(b)))

BestPerformer(validCompanies) ==
  ReduceBest(validCompanies, LAMBDA current, best :
               GreaterPerformance(PerformanceOrMinusInfinity(current),
                                  PerformanceOrMinusInfinity(best)))

generateComparisonSummary(companyData) ==
  Bind(Filter(companyData, LAMBDA c : ~IsSome(c.error)), LAMBDA validCompanies :
      IF validCompanies = <<>>
      THEN [error |-> Some(<<"No valid companies to compare">>), companies_analyzed |-> None,
            best_performer |-> None, most_covered |-> None, risk_levels |-> None]
      ELSE [error |-> None,
            companies_analyzed |-> Some(Len(validCompanies)),
            best_performer |-> Some(BestPerformer(validCompanies)),
            most_covered |->
              Some(ReduceBest(validCompanies, LAMBDA current, most :
                                OrDefault(current.news_coverage, 0)
                                  > OrDefault(most.news_coverage, 0))),
            risk_levels |->
              Some([i \in 1..Len(validCompanies) |->
                      [company |-> Get(validCompanies[i].basic_info).symbol,
                       risk |-> validCompanies[i].risk_profile]])])

generateComparisonRecommendations(companyData) ==
  Bind(Filter(companyData, LAMBDA c : ~IsSome(c.error)), LAMBDA validCompanies :
  Bind(Filter(validCompanies, LAMBDA c : c.risk_profile = Some("low")), LAMBDA lowRiskCompanies :
      IF validCompanies = <<>>
      THEN << <<"Unable to generate recommendations - no valid company data">> >>
      ELSE << Get(BestPerformer(validCompanies).basic_info).name
                \o <<" shows strongest recent performance">> >>
           \o (IF lowRiskCompanies /= <<>>
               THEN << <<"Consider ">> \o Get(lowRiskCompanies[1].basic_info).name
                         \o <<" for lower risk exposure">> >>
               ELSE <<>>)
           \o << <<"Monitor news coverage for market sentiment changes">> >>))

\* a loop body that starts the company lookup and the directors lookup
\* together, awaiting neither before the other is issued
CompareOneFanOut(companyInput, s) ==
  Bind(getCompanyBySymbol(Some(companyInput),
                          Log(s, Event("GET", "/api/directors", <<>>, <<>>))), LAMBDA c :
      IF c.k = "wait" THEN c
      ELSE IF c.k = "err"
      THEN Throw(c.v, Log(c.s, Event("fetchAPI.throw", "/api/directors", <<>>, <<>>)))
      ELSE Ok(<<>>, Log(c.s, Event("fetchAPI.return", "/api/directors", <<>>, <<>>))))

\* the body of the inner try of compareCompanies for one companyInput: the
\* entries it pushes (none when the company is not found)
CompareOne(companyInput, s) ==
  Bind(getCompanyBySymbol(Some(companyInput), s), LAMBDA c :
  Bind(Get(c.v), LAMBDA company :
  Bind(getCompanyDirectors(Some(company.id), c.s), LAMBDA d :
  Bind(getCompanyShareholders(Some(company.id), d.s), LAMBDA sh :
  Bind(getHistoricalPrices(Some(company.id), 30, sh.s), LAMBDA h :
  Bind(getRecentNews(Some(company.id), 5, h.s), LAMBDA n :
      IF c.k /= "ok" THEN c
      ELSE IF ~IsSome(c.v) THEN Ok(<<>>, c.s)
      ELSE IF d.k /= "ok" THEN d
      ELSE IF sh.k /= "ok" THEN sh
      ELSE IF h.k /= "ok" THEN h
      ELSE IF n.k /= "ok" THEN n
      ELSE Ok(<<[NoEntry EXCEPT !.basic_info = Some(company),
                                !.directors = Some(Len(d.v)),
                                !.shareholders = Some(Len(sh.v)),
                                !.recent_performance =
                                   IF Len(h.v) > 1 THEN calculatePerformance(h.v) ELSE None,
                                !.news_coverage = Some(Len(n.v)),
                                !.risk_profile = Some(assessCompanyRisk(company, d.v))]>>,
              n.s)))))))

\* the for loop of compareCompanies: a failure becomes an inline error entry
RECURSIVE CompareLoop(_, _, _)
CompareLoop(companies, companyData, s) ==
  IF companies = <<>> THEN Ok(companyData, s)
  ELSE Bind(CompareOne(Head(companies), s), LAMBDA r :
           CASE r.k = "wait" -> r
             [] r.k = "err" ->
                  CompareLoop(Tail(companies),
                    Append(companyData,
                           [NoEntry EXCEPT !.symbol = Some(Head(companies)),
                                           !.error = Some(<<"Could not find or analyze company: ">>
                                                            \o ErrToString(r.v))]),
                    r.s)
             [] OTHER -> CompareLoop(Tail(companies), companyData \o r.v, r.s))

\* companies: an optional list of strings; metrics: a list
compareCompanies(companies, metrics, s) ==
  Bind(Log(s, Event("call", "compareCompanies", <<>>, companies)), LAMBDA s0 :
  Bind(CompareLoop(Get(companies), <<>>, s0), LAMBDA l :
      IF ~IsSome(companies)
      THEN Throw(Error(<<"Company comparison failed: ">>
                         \o ErrToString(TypeError(<<"companies is not iterable">>))), s0)
      ELSE IF l.k /= "ok" THEN l
      ELSE Ok([companies_compared |-> Len(l.v),
               metrics_analyzed |-> metrics,
               detailed_comparison |-> l.v,
               summary |-> generateComparisonSummary(l.v),
               recommendations |-> generateComparisonRecommendations(l.v)],
              l.s)))

\* catch (error) { throw new Error(`<prefix>${error}`) } around a result
Rethrow(prefix, r) ==
  IF r.k = "err" THEN Throw(Error(<<prefix>> \o ErrToString(r.v)), r.s) ELSE r

\* `${x}` of an optional string
Interpolate(x) == IF IsSome(x) THEN Get(x) ELSE <<"undefined">>

\* decimal digits of a natural number
RECURSIVE Digits(_)
Digits(n) ==
  Bind(<<"0", "1", "2", "3", "4", "5", "6", "7", "8", "9">>, LAMBDA d :
      IF n < 10 THEN <<d[n + 1]>> ELSE Digits(n \div 10) \o <<d[(n % 10) + 1]>>)
\* Number.prototype.toFixed(1) and toFixed(2) of a rational
ToFixed(x, places) ==
  Bind(IF places = 1 THEN 10 ELSE 100, LAMBDA scale :
  Bind((2 * Abs(x.num) * scale + x.den) \div (2 * x.den), LAMBDA scaled :
  Bind(Digits(scaled % scale), LAMBDA frac :
      IF IsNaN(x) THEN <<"NaN">>
      ELSE (IF x.num < 0 /\ scaled > 0 THEN <<"-">> ELSE <<>>)
           \o Digits(scaled \div scale) \o <<".">>
           \o (IF places = 2 /\ Len(frac) = 1 THEN <<"0">> ELSE <<>>) \o frac)))

MarketScanCap == 20          \* analyzeTrends: allCompanies.slice(0, 20)
ForecastWindow == 5          \* generateSimpleForecast: historical.length < 5

Min(S) == CHOOSE x \in S : \A y \in S : x <= y
Max(S) == CHOOSE x \in S : \A y \in S : x >= y

\* null for fewer than 2 points; prices run newest first
analyzePriceTrend(historical) ==
  IF Len(historical) < 2 THEN None
  ELSE Bind({historical[i].close : i \in 1..Len(historical)}, LAMBDA closes :
       Bind(historical[Len(historical)].close, LAMBDA firstPrice :
       Bind(historical[1].close, LAMBDA lastPrice :
       Bind(Rat(lastPrice - firstPrice, firstPrice), LAMBDA change :
       Bind(Max(closes) - Min(closes), LAMBDA range :
       Bind(Rat(lastPrice - Min(closes), range), LAMBDA position :
           Some([direction |-> IF RatGt(change, Rat(5, 100)) THEN "upward"
                               ELSE IF RatGt(Rat(-5, 100), change) THEN "downward"
                               ELSE "sideways",
                 strength |-> Rat(Abs(change.num), change.den),
                 support_level |-> Min(closes),
                 resistance_level |-> Max(closes),
                 current_position |->
                   IF range /= 0 /\ RatGt(position, Rat(7, 10)) THEN "near_resistance"
                   ELSE IF range /= 0 /\ RatGt(Rat(3, 10), position) THEN "near_support"
                   ELSE "middle"])))))))

generateTrendInsights(trendData, company) ==
  IF ~IsSome(trendData) THEN << <<"Insufficient historical data for trend analysis">> >>
  ELSE << company.name \o <<" is in a ", Get(trendData).direction, " trend">> >>
       \o (IF RatGt(Get(trendData).strength, Rat(1, 10))
           THEN << <<"Strong trend movement with ">>
                     \o ToFixed(RatMul(Get(trendData).strength, Rat(100, 1)), 1)
                     \o <<"% change">> >>
           ELSE <<>>)
       \o (IF Get(trendData).current_position = "near_resistance"
           THEN << <<"Price approaching resistance level - potential reversal area">> >>
           ELSE IF Get(trendData).current_position = "near_support"
           THEN << <<"Price near support level - potential buying opportunity">> >>
           ELSE <<>>)

\* null for fewer than 5 points; the last 5 prices in chronological order
generateSimpleForecast(historical) ==
  IF Len(historical) < ForecastWindow THEN None
  ELSE Bind([i \in 1..ForecastWindow |-> historical[ForecastWindow + 1 - i].close], LAMBDA prices :
       Bind(            RatDiv(RatSum([i \in 1..(ForecastWindow - 1) |->
                                         Norm(Rat(prices[i + 1] - prices[i], prices[i]))]),
                               Rat(ForecastWindow - 1, 1)), LAMBDA avgChange :
           Some([method |-> "Simple moving average",
                 forecast_price |-> RatMul(Rat(prices[ForecastWindow], 1),
                                           RatAdd(Rat(1, 1), avgChange)),
                 confidence |-> "low",
                 timeframe |-> "1 day ahead"])))

\* Math.sqrt(variance) of the period changes, kept as the number under the root
calculateSectorVolatility(performances) ==
  Strict([i \in 1..Len(performances) |-> OrZero(performances[i].period_change)], LAMBDA changes :
  Strict(Mean(changes), LAMBDA mean :
      IF changes = <<>> THEN [sqrt_of |-> NaN]
      ELSE [sqrt_of |-> Mean([i \in 1..Len(changes) |->
                                RatMul(RatSub(changes[i], mean), RatSub(changes[i], mean))])]))

determineMarketDirection(performances) ==
  Bind(Mean([i \in 1..Len(performances) |-> OrZero(performances[i].period_change)]), LAMBDA avgChange :
      IF IsNaN(avgChange) THEN "neutral"
      ELSE IF RatGt(avgChange, Rat(2, 1)) THEN "strongly_bullish"
      ELSE IF RatGt(avgChange, Rat(1, 2)) THEN "bullish"
      ELSE IF RatGt(Rat(-2, 1), avgChange) THEN "strongly_bearish"
      ELSE IF RatGt(Rat(-1, 2), avgChange) THEN "bearish"
      ELSE "neutral")

calculateMarketVolatility(performances) == calculateSectorVolatility(performances)

\* correlationData has no concentration_level property of its own
generateCorrelationInsights(correlationData) ==
  << <<"Market shows ", "undefined", " concentration">>,
     <<"Top sector: ">> \o correlationData.largest_sector,
     <<"Correlation analysis suggests diversification opportunities across sectors">> >>

\* the analysis object analyzeTrends starts from
NoTrend(analysisType, target, period) ==
  [analysis_type |-> analysisType, target |-> target, period_days |-> period,
   trend_data |-> None, forecast |-> None, insights |-> <<>>]

\* case 'company_trend'
CompanyTrend(analysis, target, period, includeForecast, s) ==
  Bind(getCompanyBySymbol(target, s), LAMBDA c :
  Bind(Get(c.v), LAMBDA company :
  Bind(getHistoricalPrices(Some(company.id), period, c.s), LAMBDA h :
      IF c.k /= "ok" THEN c
      ELSE IF ~IsSome(c.v)
      THEN Throw(Error(<<"Company ">> \o Interpolate(target) \o <<" not found">>), c.s)
      ELSE IF h.k /= "ok" THEN h
      ELSE Ok([analysis EXCEPT
                 !.trend_data = analyzePriceTrend(h.v),
                 !.insights = generateTrendInsights(analyzePriceTrend(h.v), company),
                 !.forecast = IF includeForecast THEN generateSimpleForecast(h.v) ELSE None],
              h.s))))

\* case 'sector_trend'
SectorTrend(analysis, target, period, s) ==
  Bind(getCompaniesBySector(target, s), LAMBDA c :
  Bind(analyzeCompanyPerformances(c.v, period, c.s), LAMBDA p :
      IF c.k /= "ok" THEN c
      ELSE IF p.k /= "ok" THEN p
      ELSE Ok([analysis EXCEPT !.trend_data =
                 Some([sector |-> target,
                       companies_analyzed |-> Len(c.v),
                       average_performance |->
                         Mean([i \in 1..Len(p.v) |-> OrZero(p.v[i].period_change)]),
                       best_performer |-> IF p.v = <<>> THEN None ELSE Some(p.v[1]),
                       worst_performer |-> IF p.v = <<>> THEN None ELSE Some(p.v[Len(p.v)]),
                       volatility_measure |-> calculateSectorVolatility(p.v)])],
              p.s)))

\* case 'market_trend'
MarketTrend(analysis, period, s) ==
  Bind(getAllCompanies(s), LAMBDA c :
  Bind(analyzeCompanyPerformances(SliceTo(c.v, MarketScanCap), period, c.s), LAMBDA p :
  Bind(getSectorCorrelationAnalysis(period, p.s), LAMBDA sc :
      IF c.k /= "ok" THEN c
      ELSE IF p.k /= "ok" THEN p
      ELSE IF sc.k /= "ok" THEN sc
      ELSE Ok([analysis EXCEPT !.trend_data =
                 Some([market |-> "IBEX 35",
                       companies_analyzed |-> Len(p.v),
                       market_direction |-> determineMarketDirection(p.v),
                       sector_performance |-> sc.v,
                       volatility_index |-> calculateMarketVolatility(p.v)])],
              sc.s))))

\* case 'correlation_analysis'
CorrelationTrend(analysis, period, s) ==
  Bind(getSectorCorrelationAnalysis(period, s), LAMBDA sc :
      IF sc.k /= "ok" THEN sc
      ELSE Ok([analysis EXCEPT !.trend_data =
                 Some([correlation_insights |-> generateCorrelationInsights(sc.v)]
                        @@ sc.v)],
              sc.s))

\* analysisType: an optional string; any other type leaves the analysis as it
\* started
analyzeTrends(analysisType, target, period, includeForecast, s) ==
  Bind(Log(s, Event("call", "analyzeTrends", <<>>, <<>>)), LAMBDA s0 :
  Bind(NoTrend(analysisType, target, period), LAMBDA analysis :
      Rethrow("Trend analysis failed: ",
        IF analysisType = Some("company_trend")
        THEN CompanyTrend(analysis, target, period, includeForecast, s0)
        ELSE IF analysisType = Some("sector_trend")
        THEN SectorTrend(analysis, target, period, s0)
        ELSE IF analysisType = Some("market_trend") THEN MarketTrend(analysis, period, s0)
        ELSE IF analysisType = Some("correlation_analysis")
        THEN CorrelationTrend(analysis, period, s0)
        ELSE Ok(analysis, s0))))

\* the five static sub-assessments
assessMarketRisk ==
  [risk_level |-> "medium", factors |-> <<"Market volatility", "Sector concentration">>,
   score |-> Rat(65, 10),
   recommendations |-> <<"Diversify across sectors", "Monitor market trends">>]
assessGovernanceRisk ==
  [risk_level |-> "low", factors |-> <<"Board composition", "Director interlocks">>,
   score |-> Rat(32, 10),
   recommendations |-> <<"Review board independence", "Monitor governance changes">>]
assessSectorRisk ==
  [risk_level |-> "medium", factors |-> <<"Sector volatility", "Regulatory environment">>,
   score |-> Rat(58, 10),
   recommendations |-> <<"Consider sector rotation", "Monitor regulatory changes">>]
assessLiquidityRisk ==
  [risk_level |-> "low", factors |-> <<"Trading volume", "Market cap">>,
   score |-> Rat(29, 10),
   recommendations |-> <<"Monitor trading volumes",
                         "Ensure sufficient liquidity for position size">>]
assessConcentrationRisk ==
  [risk_level |-> "medium", factors |-> <<"Position size", "Sector exposure">>,
   score |-> Rat(61, 10),
   recommendations |-> <<"Diversify holdings", "Limit single position exposure">>]

\* the risk dimensions in the order assessInvestmentRisk assigns them
RiskDimensions ==
  << [type |-> "market_risk", risk |-> assessMarketRisk],
     [type |-> "governance_risk", risk |-> assessGovernanceRisk],
     [type |-> "sector_risk", risk |-> assessSectorRisk],
     [type |-> "liquidity_risk", risk |-> assessLiquidityRisk],
     [type |-> "concentration_risk", risk |-> assessConcentrationRisk] >>

\* riskBreakdown: the requested dimensions, as a list of properties
RiskBreakdown(riskTypes) ==
  Filter(RiskDimensions, LAMBDA d :
           \E i \in 1..Len(riskTypes) : riskTypes[i] = "all" \/ riskTypes[i] = d.type)

\* the mean of the scores: 0 / 0 for an empty breakdown
calculateOverallRiskScore(riskBreakdown) ==
  Mean([i \in 1..Len(riskBreakdown) |-> riskBreakdown[i].risk.score])

RECURSIVE Concat(_)
Concat(lists) == IF lists = <<>> THEN <<>> ELSE Head(lists) \o Concat(Tail(lists))

\* [...new Set(recommendations)]
generateRiskRecommendations(riskBreakdown) ==
  Distinct(Concat([i \in 1..Len(riskBreakdown) |-> riskBreakdown[i].risk.recommendations]))

\* the nested try/catch that classifies the target: a failed company lookup
\* falls through to the sector lookup, a failed sector lookup to 'portfolio'
ResolveTarget(target, s) ==
  Bind(getCompanyBySymbol(target, s), LAMBDA c :
  Bind(getCompaniesBySector(target, c.s), LAMBDA sec :
      IF c.k = "wait" THEN c
      ELSE IF c.k = "ok" THEN Ok([targetType |-> "company", targetData |-> c.v], c.s)
      ELSE IF sec.k = "wait" THEN sec
      ELSE IF sec.k = "ok" THEN Ok([targetType |-> "sector", targetData |-> sec.v], sec.s)
      ELSE Ok([targetType |-> "portfolio", targetData |-> None], sec.s)))

\* a variant in which a failed company lookup fails the assessment
assessInvestmentRiskPropagating(target, riskTypes, s) ==
  Bind(getCompanyBySymbol(target, Log(s, Event("call", "assessInvestmentRisk", <<>>, target))), LAMBDA c :
  Bind(RiskBreakdown(riskTypes), LAMBDA riskBreakdown :
      IF c.k /= "ok" THEN Rethrow("Risk assessment failed: ", c)
      ELSE Ok([target |-> target,
               risk_types_analyzed |-> riskTypes,
               overall_risk_score |-> calculateOverallRiskScore(riskBreakdown),
               risk_breakdown |-> riskBreakdown,
               recommendations |-> generateRiskRecommendations(riskBreakdown)],
              Log(c.s, Event("classified", "company", <<>>, target)))))
\* target: an optional string; riskTypes: a list of strings
assessInvestmentRisk(target, riskTypes, s) ==
  Bind(ResolveTarget(target, Log(s, Event("call", "assessInvestmentRisk", <<>>, target))), LAMBDA t :
  Bind(RiskBreakdown(riskTypes), LAMBDA riskBreakdown :
      IF t.k /= "ok" THEN t
      ELSE Ok([target |-> target,
               risk_types_analyzed |-> riskTypes,
               overall_risk_score |-> calculateOverallRiskScore(riskBreakdown),
               risk_breakdown |-> riskBreakdown,
               recommendations |-> generateRiskRecommendations(riskBreakdown)],
              Log(t.s, Event("classified", t.v.targetType, <<>>, target)))))

\* a score kept in tenths, clamped to 0..10
Clamp(tenths) == Rat(IF tenths < 0 THEN 0 ELSE IF tenths > 100 THEN 100 ELSE tenths, 10)

calculateGovernanceScore(directors, interlocks) ==
  Clamp(80 - (IF Len(directors) > 15 THEN 10 ELSE 0)
           - (IF Len(directors) < 5 THEN 5 ELSE 0)
           - (IF Len(interlocks) > 5 THEN 20 ELSE 0))

getCompanyGovernanceAnalysis(company, s) ==
  Bind(getCompanyDirectors(Some(company.id), s), LAMBDA d :
  Bind(getBoardInterlocks(d.s), LAMBDA il :
  Bind(                    Filter(il.v, LAMBDA interlock :
                                          includes(interlock.companies, company.name)), LAMBDA companyInterlocks :
      IF d.k /= "ok" THEN d
      ELSE IF il.k /= "ok" THEN il
      ELSE Ok([board_size |-> Len(d.v),
               director_interlocks |-> Len(companyInterlocks),
               governance_score |-> calculateGovernanceScore(d.v, companyInterlocks),
               risk_factors |-> IF Len(companyInterlocks) > 3
                                THEN <<"High director interlocks">> ELSE <<>>],
              il.s))))

\* value: an optional number; dataset: a list of optional numbers
calculatePercentile(value, dataset) ==
  Bind(Filter(dataset, LAMBDA v : IsSome(v)), LAMBDA present :
  Bind(SortBy([i \in 1..Len(present) |-> Get(present[i])], LAMBDA a, b : a < b), LAMBDA sorted :
  Bind({i \in 1..Len(sorted) : sorted[i] >= Get(value)}, LAMBDA hits :
      IF OrDefault(value, 0) = 0 \/ dataset = <<>> THEN Rat(0, 1)
      ELSE IF hits = {} THEN Rat(100, 1)
      ELSE Norm(Rat((Min(hits) - 1) * 100, Len(sorted))))))

getCompanyMarketPosition(company, s) ==
  Bind(getCompaniesBySector(company.sector, s), LAMBDA c :
  Bind({i \in 1..Len(c.v) : c.v[i].id = company.id}, LAMBDA found :
  Bind(IF found = {} THEN 0 ELSE Min(found), LAMBDA position :
      IF c.k /= "ok" THEN c
      ELSE Ok([sector_rank |-> position,
               sector_companies |-> Len(c.v),
               market_cap_percentile |->
                 calculatePercentile(company.market_cap,
                                     [i \in 1..Len(c.v) |-> c.v[i].market_cap]),
               competitive_position |-> IF position <= 3 THEN "leader"
                                        ELSE IF position <= 10 THEN "challenger"
                                        ELSE "follower"],
              c.s))))

\* market caps are counted in units of 1e8: market_cap / 1e9 is a tenth of it
generateCompanyExecutiveSummary(sections) ==
  Bind(sections.company_overview, LAMBDA company :
  Bind(sections.risk_assessment, LAMBDA risk :
      company.name \o <<" is a ">> \o Interpolate(company.sector)
        \o <<" company with market cap of EUR ">>
        \o (IF IsSome(company.market_cap) THEN ToFixed(Rat(Get(company.market_cap), 10), 1)
            ELSE <<"NaN">>)
        \o <<"B. ", "Overall risk assessment: ",
             IF RatGt(risk.overall_risk_score, Rat(7, 1)) THEN "High"
             ELSE IF RatGt(risk.overall_risk_score, Rat(4, 1)) THEN "Medium" ELSE "Low",
             ". ", "Recent developments and market position analysis included.">>))

calculateConcentrationRatio(companies) ==
  Bind(             SortBy([i \in 1..Len(companies) |-> OrDefault(companies[i].market_cap, 0)],
                           LAMBDA a, b : b - a < 0), LAMBDA marketCaps :
  Bind(SumSeq(marketCaps), LAMBDA total :
      IF total > 0 THEN Norm(Rat(SumSeq(SliceTo(marketCaps, 4)) * 100, total)) ELSE Rat(0, 1)))

analyzeSectorCompetition(companies) ==
  [total_companies |-> Len(companies),
   market_leaders |-> SliceTo(companies, 3),
   competition_intensity |-> IF Len(companies) > 10 THEN "high"
                             ELSE IF Len(companies) > 5 THEN "medium" ELSE "low",
   concentration_ratio |-> calculateConcentrationRatio(companies)]

generateReportConclusions(subject) ==
  << <<"Analysis completed for ">> \o Interpolate(subject),
     <<"Market conditions and competitive position evaluated">>,
     <<"Risk assessment and opportunities identified">> >>

generateReportRecommendations ==
  << <<"Continue monitoring market developments">>,
     <<"Review risk factors regularly">>,
     <<"Consider sector rotation opportunities">> >>

\* case 'company_deep_dive': the sections, and the executive summary
CompanyDeepDive(subject, s) ==
  Bind(getCompanyBySymbol(subject, s), LAMBDA c :
  Bind(Get(c.v), LAMBDA company :
  Bind(getCompanyGovernanceAnalysis(company, c.s), LAMBDA g :
  Bind(getCompanyMarketPosition(company, g.s), LAMBDA m :
  Bind(assessInvestmentRisk(subject, <<"all">>, m.s), LAMBDA r :
  Bind(getRecentNews(Some(company.id), 10, r.s), LAMBDA n :
  Bind(           [company_overview |-> company,
                   financial_metrics |->
                     [market_cap |-> company.market_cap,
                      pe_ratio |-> OrNum(company.price_to_earnings, company.pe_ratio),
                      sector |-> company.sector],
                   governance_analysis |-> g.v,
                   market_position |-> m.v,
                   risk_assessment |-> r.v,
                   recent_developments |-> n.v], LAMBDA sections :
      IF c.k /= "ok" THEN c
      ELSE IF ~IsSome(c.v)
      THEN Throw(Error(<<"Company ">> \o Interpolate(subject) \o <<" not found">>), c.s)
      ELSE IF g.k /= "ok" THEN g
      ELSE IF m.k /= "ok" THEN m
      ELSE IF r.k /= "ok" THEN r
      ELSE IF n.k /= "ok" THEN n
      ELSE Ok([sections |-> sections,
               executive_summary |-> generateCompanyExecutiveSummary(sections)],
              n.s))))))))

\* case 'sector_overview'
SectorOverview(subject, s) ==
  Bind(getCompaniesBySector(subject, s), LAMBDA c :
  Bind(getSectorCorrelationAnalysis(30, c.s), LAMBDA a :
  Bind(analyzeTrends(Some("sector_trend"), subject, 30, FALSE, a.s), LAMBDA t :
      IF c.k /= "ok" THEN c
      ELSE IF a.k /= "ok" THEN a
      ELSE IF t.k /= "ok" THEN t
      ELSE Ok([sections |->
                 [sector_overview |->
                    [sector_name |-> subject,
                     company_count |-> Len(c.v),
                     total_market_cap |->
                       SumSeq([i \in 1..Len(c.v) |-> OrDefault(c.v[i].market_cap, 0)])],
                  performance_analysis |-> a.v,
                  key_players |-> SliceTo(c.v, 10),
                  market_trends |-> t.v,
                  competitive_landscape |-> analyzeSectorCompetition(c.v)],
               executive_summary |-> <<>>],
              t.s))))

\* a switch whose default case builds the sector overview
generateAnalystReportDefaulting(subject, reportType, includeCharts, s) ==
  Bind(Log(s, Event("call", "generateAnalystReport", <<>>, subject)), LAMBDA s0 :
  Bind(    IF reportType = Some("company_deep_dive") THEN CompanyDeepDive(subject, s0)
           ELSE IF reportType = Some("sector_overview") THEN SectorOverview(subject, s0)
           ELSE SectorOverview(subject, s0), LAMBDA r :
      IF r.k /= "ok" THEN Rethrow("Report generation failed: ", r)
      ELSE Ok([subject |-> subject,
               report_type |-> reportType,
               executive_summary |-> r.v.executive_summary,
               sections |-> r.v.sections,
               charts |-> IF includeCharts THEN Some(<<>>) ELSE None,
               conclusions |-> generateReportConclusions(subject),
               recommendations |-> generateReportRecommendations],
              r.s)))

\* subject, reportType: optional strings
generateAnalystReport(subject, reportType, includeCharts, s) ==
  Bind(Log(s, Event("call", "generateAnalystReport", <<>>, subject)), LAMBDA s0 :
  Bind(    IF reportType = Some("company_deep_dive") THEN CompanyDeepDive(subject, s0)
           ELSE IF reportType = Some("sector_overview") THEN SectorOverview(subject, s0)
           ELSE Throw(Error(<<"Unknown report type: ",
                              IF IsSome(reportType) THEN Get(reportType) ELSE "undefined">>),
                      s0), LAMBDA r :
      IF r.k /= "ok" THEN Rethrow("Report generation failed: ", r)
      ELSE Ok([subject |-> subject,
               report_type |-> reportType,
               executive_summary |-> r.v.executive_summary,
               sections |-> r.v.sections,
               charts |-> IF includeCharts THEN Some(<<>>) ELSE None,
               conclusions |-> generateReportConclusions(subject),
               recommendations |-> generateReportRecommendations],
              r.s)))

\* screening criteria: every property optional
NoCriteria ==
  [pe_ratio_min |-> None, pe_ratio_max |-> None, market_cap_min |-> None,
   market_cap_max |-> None, sectors |-> None, exclude_sectors |-> None]

\* the market-cap filter of screenOpportunities
MarketCapInRange(company, criteria) ==
  /\ OrDefault(company.market_cap, 0) /= 0
  /\ ~(IsSome(criteria.market_cap_min)
         /\ Get(company.market_cap) < Get(criteria.market_cap_min))
  /\ ~(IsSome(criteria.market_cap_max)
         /\ Get(company.market_cap) > Get(criteria.market_cap_max))

\* sectors.some(sector => company.sector?.toLowerCase().includes(sector.toLowerCase()))
InSomeSector(company, sectors) ==
  /\ IsSome(company.sector)
  /\ \E i \in 1..Len(sectors) :
       includes(toLowerCase(Get(company.sector)), toLowerCase(sectors[i]))

\* the four filters, applied in order
ScreenFilter(companies, criteria) ==
  Bind(       IF IsSome(criteria.pe_ratio_min) \/ IsSome(criteria.pe_ratio_max)
              THEN Filter(companies, LAMBDA company :
                            PEInRange(company, criteria.pe_ratio_min, criteria.pe_ratio_max))
              ELSE companies, LAMBDA byPE :
  Bind(        IF IsSome(criteria.market_cap_min) \/ IsSome(criteria.market_cap_max)
               THEN Filter(byPE, LAMBDA company : MarketCapInRange(company, criteria))
               ELSE byPE, LAMBDA byCap :
  Bind(           IF IsSome(criteria.sectors) /\ Len(Get(criteria.sectors)) > 0
                  THEN Filter(byCap, LAMBDA company :
                                InSomeSector(company, Get(criteria.sectors)))
                  ELSE byCap, LAMBDA bySector :
      IF IsSome(criteria.exclude_sectors) /\ Len(Get(criteria.exclude_sectors)) > 0
      THEN Filter(bySector, LAMBDA company :
                    ~InSomeSector(company, Get(criteria.exclude_sectors)))
      ELSE bySector)))

\* the sector names that earn the sector bonus
BonusSectors ==
  { <<"b", "a", "n", "k", "i", "n", "g">>,
    <<"t", "e", "c", "h", "n", "o", "l", "o", "g", "y">>,
    <<"h", "e", "a", "l", "t", "h", "c", "a", "r", "e">> }

\* the score of one company, in tenths before clamping
ScoreOf(company) ==
  Bind(OrDefault(OrNum(company.price_to_earnings, company.pe_ratio), 0), LAMBDA pe :
      50 + (IF pe /= 0 /\ pe < 15 THEN 10 ELSE 0)
         - (IF pe /= 0 /\ pe > 25 THEN 5 ELSE 0)
         + (IF IsSome(company.market_cap) /\ Get(company.market_cap) > 100 THEN 5 ELSE 0)
         - (IF IsSome(company.market_cap) /\ Get(company.market_cap) < 10 THEN 3 ELSE 0)
         + (IF TruthyStr(company.sector) /\ toLowerCase(Get(company.sector)) \in BonusSectors
            THEN 3 ELSE 0))

\* scoring that leaves the candidates in the order of the company list
scoreOpportunitiesUnsorted(companies, criteria) ==
  SortBy([i \in 1..Len(companies) |->
            [company |-> companies[i],
             symbol |-> companies[i].symbol,
             name |-> companies[i].name,
             sector |-> companies[i].sector,
             score |-> Clamp(ScoreOf(companies[i])),
             key_metrics |->
               [market_cap |-> companies[i].market_cap,
                pe_ratio |-> OrNum(companies[i].price_to_earnings, companies[i].pe_ratio)]]],
         LAMBDA a, b : FALSE)

\* scored.sort((a, b) => b.score - a.score) over the mapped companies
scoreOpportunities(companies, criteria) ==
  SortBy([i \in 1..Len(companies) |->
            [company |-> companies[i],
             symbol |-> companies[i].symbol,
             name |-> companies[i].name,
             sector |-> companies[i].sector,
             score |-> Clamp(ScoreOf(companies[i])),
             key_metrics |->
               [market_cap |-> companies[i].market_cap,
                pe_ratio |-> OrNum(companies[i].price_to_earnings, companies[i].pe_ratio)]]],
         LAMBDA a, b : RatGt(a.score, b.score))

\* `opp.sector || 'Other'`
SectorOrOther(opp) == IF TruthyStr(opp.sector) THEN Get(opp.sector) ELSE <<"O", "t", "h", "e", "r">>

\* the first sector, in order of first occurrence, with the largest count
getTopSector(opportunities) ==
  LET sectors == Distinct([i \in 1..Len(opportunities) |-> SectorOrOther(opportunities[i])])
      Count(sector) == Len(Filter(opportunities, LAMBDA opp : SectorOrOther(opp) = sector))
      T[i \in 0..Len(sectors)] ==
        IF i = 0 THEN <<"O", "t", "h", "e", "r">>
        ELSE IF Count(sectors[i]) > Count(T[i - 1]) THEN sectors[i] ELSE T[i - 1]
  IN  T[Len(sectors)]

\* criteria: an optional record; reading a property of undefined throws after
\* the company list has been fetched
screenOpportunities(criteria, limit, s) ==
  Bind(getAllCompanies(Log(s, Event("call", "screenOpportunities", <<>>, <<>>))), LAMBDA c :
  Bind(scoreOpportunities(ScreenFilter(c.v, Get(criteria)), Get(criteria)), LAMBDA scoredOpportunities :
      IF c.k /= "ok" THEN Rethrow("Opportunity screening failed: ", c)
      ELSE IF ~IsSome(criteria)
      THEN Rethrow("Opportunity screening failed: ",
                   Throw(TypeError(<<"Cannot read properties of undefined">>), c.s))
      ELSE Ok([criteria |-> criteria,
               total_companies_screened |-> Len(c.v),
               opportunities |-> SliceTo(scoredOpportunities, limit),
               summary |->
                 [companies_passed_screening |-> Len(scoredOpportunities),
                  top_scoring_sector |-> getTopSector(scoredOpportunities),
                  average_score |->
                    IF Len(scoredOpportunities) > 0
                    THEN Mean([i \in 1..Len(scoredOpportunities) |->
                                 scoredOpportunities[i].score])
                    ELSE Rat(0, 1)]],
              c.s)))

\* characters a regular expression counts as word characters (\w)
WordChars ==
  {LowerChars[i] : i \in 1..Len(LowerChars)} \cup {UpperChars[i] : i \in 1..Len(UpperChars)}
    \cup {"0", "1", "2", "3", "4", "5", "6", "7", "8", "9", "_"}
IsWordAt(str, i) == i \in 1..Len(str) /\ str[i] \in WordChars

\* /\bw/ matches at position i: w starts with a word character
PrefixAt(str, w, i) ==
  /\ i >= 1 /\ i + Len(w) - 1 <= Len(str)
  /\ SubSeq(str, i, i + Len(w) - 1) = w
  /\ ~IsWordAt(str, i - 1)
\* /\bw\b/ matches at position i: w starts and ends with a word character
WordAt(str, w, i) == PrefixAt(str, w, i) /\ ~IsWordAt(str, i + Len(w))

\* /\b(w1|w2|...)\b/ matches somewhere
MatchesWord(str, words) ==
  \E w \in words : \E i \in 1..Len(str) : WordAt(str, w, i)
\* /\b(first)\b.*\b(second)\b/ matches somewhere
MatchesWordThenWord(str, first, second) ==
  \E w \in first : \E i \in 1..Len(str) :
    /\ WordAt(str, w, i)
    /\ \E v \in second : \E j \in (i + Len(w))..Len(str) : WordAt(str, v, j)
\* /\b(first).*\b(second)\b/ matches somewhere
MatchesPrefixThenWord(str, first, second) ==
  \E w \in first : \E i \in 1..Len(str) :
    /\ PrefixAt(str, w, i)
    /\ \E v \in second : \E j \in (i + Len(w))..Len(str) : WordAt(str, v, j)
\* match[0] of /\b(a1|a2|...)\b/: the leftmost match, and at that position the
\* first alternative that matches; None without a match
FirstMatch(str, alternatives) ==
  Bind({i \in 1..Len(str) : \E k \in 1..Len(alternatives) : WordAt(str, alternatives[k], i)}, LAMBDA at :
  Bind(Min(at), LAMBDA i :
  Bind(Min({n \in 1..Len(alternatives) : WordAt(str, alternatives[n], i)}), LAMBDA k :
      IF at = {} THEN None ELSE Some(alternatives[k]))))

\* String.prototype.toUpperCase, character by character
UpperChar(c) ==
  IF \E i \in 1..Len(LowerChars) : LowerChars[i] = c
  THEN UpperChars[CHOOSE i \in 1..Len(LowerChars) : LowerChars[i] = c]
  ELSE c
toUpperCase(str) == [i \in 1..Len(str) |-> UpperChar(str[i])]

\* the word lists of the patterns of analyzeNaturalQuery
BankingWords == {<<"b", "a", "n", "k">>,
     <<"b", "a", "n", "k", "i", "n", "g">>,
     <<"f", "i", "n", "a", "n", "c", "i", "a", "l">>}
GrowthWords == {<<"g", "r", "o", "w">>,
     <<"g", "r", "o", "w", "t", "h">>,
     <<"p", "e", "r", "f", "o", "r", "m", "a", "n", "c", "e">>,
     <<"b", "e", "s", "t">>,
     <<"w", "o", "r", "s", "t">>}
RiskWords == {<<"r", "i", "s", "k">>,
     <<"r", "i", "s", "k", "y">>,
     <<"g", "o", "v", "e", "r", "n", "a", "n", "c", "e">>,
     <<"r", "e", "d", " ", "f", "l", "a", "g">>}
CompareWords == {<<"c", "o", "m", "p", "a", "r", "e">>,
     <<"v", "s">>,
     <<"v", "e", "r", "s", "u", "s">>,
     <<"a", "g", "a", "i", "n", "s", "t">>}
SectorWords == {<<"s", "e", "c", "t", "o", "r">>,
     <<"i", "n", "d", "u", "s", "t", "r", "y">>}
SectorTrendWords == {<<"p", "e", "r", "f", "o", "r", "m", "a", "n", "c", "e">>,
     <<"t", "r", "e", "n", "d">>,
     <<"g", "r", "o", "w", "t", "h">>}
SectorNames ==
  <<<<"b", "a", "n", "k", "i", "n", "g">>,
     <<"e", "n", "e", "r", "g", "y">>,
     <<"t", "e", "l", "e", "c", "o", "m">>,
     <<"t", "e", "x", "t", "i", "l", "e">>,
     <<"s", "t", "e", "e", "l">>,
     <<"a", "v", "i", "a", "t", "i", "o", "n">>,
     <<"i", "n", "f", "r", "a", "s", "t", "r", "u", "c", "t", "u", "r", "e">>>>
PriceWords == {<<"p", "r", "i", "c", "e">>,
     <<"t", "r", "e", "n", "d">>,
     <<"f", "o", "r", "e", "c", "a", "s", "t">>,
     <<"p", "r", "e", "d", "i", "c", "t", "i", "o", "n">>}
\* companyPatterns, one list of alternatives per pattern
companyPatterns ==
  << <<<<"s", "a", "n", "t", "a", "n", "d", "e", "r">>,
     <<"s", "a", "n", ".", "m", "c">>,
     <<"s", "a", "n">>>>,
     <<<<"b", "b", "v", "a">>,
     <<"b", "b", "v", "a", ".", "m", "c">>>>,
     <<<<"i", "b", "e", "r", "d", "r", "o", "l", "a">>,
     <<"i", "b", "e", ".", "m", "c">>,
     <<"i", "b", "e">>>>,
     <<<<"t", "e", "l", "e", "f", "o", "n", "i", "c", "a">>,
     <<"t", "e", "f", ".", "m", "c">>,
     <<"t", "e", "f">>>>,
     <<<<"i", "n", "d", "i", "t", "e", "x">>,
     <<"i", "t", "x", ".", "m", "c">>,
     <<"i", "t", "x">>>> >>

\* foundCompanies: for each pattern that matches, the matched text in upper case
foundCompanies(lowerQuery) ==
  Bind(       Filter([k \in 1..Len(companyPatterns) |-> FirstMatch(lowerQuery, companyPatterns[k])],
                     LAMBDA m : IsSome(m)), LAMBDA hits :
      [k \in 1..Len(hits) |-> toUpperCase(Get(hits[k]))])

\* a chain that tests the comparison pattern before the risk pattern
QueryBranchComparisonFirst(lowerQuery) ==
  IF MatchesWordThenWord(lowerQuery, BankingWords, GrowthWords) THEN "banking"
  ELSE IF MatchesWord(lowerQuery, CompareWords) THEN "comparison"
  ELSE IF MatchesWord(lowerQuery, RiskWords) THEN "risk"
  ELSE IF MatchesPrefixThenWord(lowerQuery, SectorWords, SectorTrendWords) THEN "sector"
  ELSE IF MatchesWord(lowerQuery, PriceWords) THEN "price"
  ELSE "general"

\* the branch analyzeNaturalQuery takes
QueryBranch(lowerQuery) ==
  IF MatchesWordThenWord(lowerQuery, BankingWords, GrowthWords) THEN "banking"
  ELSE IF MatchesWord(lowerQuery, RiskWords) THEN "risk"
  ELSE IF MatchesWord(lowerQuery, CompareWords) THEN "comparison"
  ELSE IF MatchesPrefixThenWord(lowerQuery, SectorWords, SectorTrendWords) THEN "sector"
  ELSE IF MatchesWord(lowerQuery, PriceWords) THEN "price"
  ELSE "general"

\* the analysis object analyzeNaturalQuery starts from; results is None while
\* it is still {}
NoAnalysis(query, context) ==
  [original_query |-> query, context |-> context, interpretation |-> <<>>,
   suggested_actions |-> <<>>, results |-> None, execution_plan |-> <<>>,
   error |-> None, fallback_suggestion |-> None]

generateTrendSummary(topPerformers) ==
  Bind(Mean([i \in 1..Len(topPerformers) |-> OrZero(topPerformers[i].period_change)]), LAMBDA avgChange :
      <<"Market showing ",
        IF ~IsNaN(avgChange) /\ RatGt(avgChange, Rat(0, 1)) THEN "upward" ELSE "downward",
        " trend with average change of ">> \o ToFixed(avgChange, 2) \o <<"%">>)

\* interpretation.includes('Banking') and interpretation.includes('risk')
generateActionSuggestions(interpretation) ==
  (IF includes(interpretation, <<"B", "a", "n", "k", "i", "n", "g">>)
   THEN <<"Use get_companies_by_sector with \"banking\" for more details",
          "Try compare_companies to analyze specific banking stocks">>
   ELSE <<>>)
  \o (IF includes(interpretation, <<"r", "i", "s", "k">>)
      THEN <<"Use assess_investment_risk for detailed risk analysis",
             "Try get_board_interlocks to analyze governance connections">>
      ELSE <<>>)
  \o <<"Use generate_analyst_report for comprehensive analysis",
       "Try screen_opportunities to find investment candidates">>

\* the interpretation each branch sets before its first request
Interpretation(branch, lowerQuery) ==
  CASE branch = "banking" -> <<"B", "a", "n", "k", "i", "n", "g", " ", "s", "e", "c", "t", "o", "r", " ", "p", "e", "r", "f", "o", "r", "m", "a", "n", "c", "e", " ", "a", "n", "a", "l", "y", "s", "i", "s">>
    [] branch = "risk" -> <<"R", "i", "s", "k", " ", "a", "s", "s", "e", "s", "s", "m", "e", "n", "t", " ", "a", "n", "a", "l", "y", "s", "i", "s">>
    [] branch = "comparison" -> <<"C", "o", "m", "p", "a", "n", "y", " ", "c", "o", "m", "p", "a", "r", "i", "s", "o", "n", " ", "a", "n", "a", "l", "y", "s", "i", "s">>
    [] branch = "sector" ->
         (IF IsSome(FirstMatch(lowerQuery, SectorNames))
          THEN Get(FirstMatch(lowerQuery, SectorNames)) ELSE <<"e", "n", "e", "r", "g", "y">>)
           \o <<" ", "s", "e", "c", "t", "o", "r", " ", "p", "e", "r", "f", "o", "r", "m", "a", "n", "c", "e", " ", "a", "n", "a", "l", "y", "s", "i", "s">>
    [] branch = "price" -> <<"P", "r", "i", "c", "e", " ", "t", "r", "e", "n", "d", " ", "a", "n", "a", "l", "y", "s", "i", "s">>
    [] OTHER -> <<"G", "e", "n", "e", "r", "a", "l", " ", "m", "a", "r", "k", "e", "t", " ", "o", "v", "e", "r", "v", "i", "e", "w">>

ExecutionPlan(branch) ==
  CASE branch = "banking" ->
         <<"Get banking sector companies", "Analyze recent performance", "Rank by growth">>
    [] branch = "risk" ->
         <<"Analyze governance risks", "Check market risks", "Generate risk report">>
    [] OTHER -> <<>>

\* the results of each branch
BankingResults(s) ==
  Bind(getCompaniesBySector(Some(<<"b", "a", "n", "k", "i", "n", "g">>), s), LAMBDA c :
  Bind(analyzeCompanyPerformances(c.v, 30, c.s), LAMBDA p :
      IF c.k /= "ok" THEN c
      ELSE IF p.k /= "ok" THEN p
      ELSE Ok([sector |-> "Banking", companies_analyzed |-> Len(c.v),
               top_performers |-> SliceTo(p.v, 5), analysis_period |-> "30 days"], p.s)))

RiskResults(s) ==
  Bind(getAllCompanies(s), LAMBDA c :
  Bind(getBoardInterlocks(c.s), LAMBDA il :
  Bind(getGovernanceRiskFactors(c.v, il.v), LAMBDA governanceRisks :
      IF c.k /= "ok" THEN c
      ELSE IF il.k /= "ok" THEN il
      ELSE Ok([total_companies_analyzed |-> Len(c.v),
               governance_risks |-> governanceRisks,
               high_risk_companies |->
                 Len(Filter(governanceRisks.governance_red_flags,
                            LAMBDA f : f.severity = "high")),
               recommendations |-> <<>>],
              il.s))))

ComparisonResults(lowerQuery, s) ==
  IF Len(foundCompanies(lowerQuery)) >= 2
  THEN compareCompanies(Some(foundCompanies(lowerQuery)), <<"all">>, s)
  ELSE Ok([error |-> "Could not identify companies to compare",
           suggestion |-> "Try: \"Compare Santander vs BBVA\" or use company symbols like SAN.MC vs BBVA.MC"],
          s)

SectorResults(lowerQuery, s) ==
  Bind(getSectorCorrelationAnalysis(30, s), LAMBDA r :
      IF r.k /= "ok" THEN r
      ELSE Ok([focused_sector |->
                 IF IsSome(FirstMatch(lowerQuery, SectorNames))
                 THEN Get(FirstMatch(lowerQuery, SectorNames)) ELSE <<"e", "n", "e", "r", "g", "y">>]
                @@ r.v,
              r.s))

PriceResults(s) ==
  Bind(getAllCompanies(s), LAMBDA c :
  Bind(getTopPerformers(30, 10, c.s), LAMBDA t :
      IF c.k /= "ok" THEN c
      ELSE IF t.k /= "ok" THEN t
      ELSE Ok([analysis_type |-> "Price trends over 30 days", top_performers |-> t.v,
               trend_summary |-> generateTrendSummary(t.v)], t.s)))

GeneralResults(s) ==
  Bind(getAllCompanies(s), LAMBDA c :
  Bind(getRecentNews(None, 5, c.s), LAMBDA n :
  Bind(getTopPerformers(7, 5, n.s), LAMBDA t :
      IF c.k /= "ok" THEN c
      ELSE IF n.k /= "ok" THEN n
      ELSE IF t.k /= "ok" THEN t
      ELSE Ok([total_companies |-> Len(c.v), recent_market_news |-> Len(n.v),
               weekly_top_performers |-> t.v,
               market_snapshot |-> "Current IBEX 35 overview"], t.s))))

\* query, context: optional strings.  query.toLowerCase() runs before the try:
\* a missing query throws out of the method; every later failure is caught and
\* returned inside the analysis
analyzeNaturalQuery(query, context, s) ==
  Bind(Log(s, Event("call", "analyzeNaturalQuery", <<>>, query)), LAMBDA s0 :
  Bind(toLowerCase(Get(query)), LAMBDA lowerQuery :
  Bind(QueryBranch(lowerQuery), LAMBDA branch :
  Bind(           [NoAnalysis(query, context) EXCEPT
                     !.interpretation = Interpretation(branch, lowerQuery),
                     !.execution_plan = ExecutionPlan(branch)], LAMBDA analysis :
  Bind(    CASE branch = "banking" -> BankingResults(s0)
             [] branch = "risk" -> RiskResults(s0)
             [] branch = "comparison" -> ComparisonResults(lowerQuery, s0)
             [] branch = "sector" -> SectorResults(lowerQuery, s0)
             [] branch = "price" -> PriceResults(s0)
             [] OTHER -> GeneralResults(s0), LAMBDA r :
      IF ~IsString(query)
      THEN Throw(TypeError(<<"query.toLowerCase is not a function">>), s0)
      ELSE IF r.k = "wait" THEN r
      ELSE IF r.k = "err"
      THEN Ok([analysis EXCEPT
                 !.error = Some(<<"Failed to process natural language query: ">>
                                  \o ErrToString(r.v)),
                 !.fallback_suggestion =
                   Some("Try using specific tool names like get_all_companies, get_recent_news, or get_board_interlocks")],
              r.s)
      ELSE Ok([analysis EXCEPT
                 !.results = Some(r.v),
                 !.suggested_actions = generateActionSuggestions(analysis.interpretation)],
              r.s))))))

-----------------------------------------------------------------------------
(* Tool Dispatcher: the CallToolRequestSchema handler (src/unnamed/part_000) *)

\* JSON.stringify(result, null, 2): the text that parses back to result
JSONStringify(result) == <<"JSON", result>>

\* the switch over the tool name
Dispatch(name, a, s) ==
  CASE name = "get_all_companies" -> getAllCompanies(s)
    [] name = "get_company_by_symbol" -> getCompanyBySymbol(a.symbol, s)
    [] name = "get_companies_by_sector" -> getCompaniesBySector(a.sector, s)
    [] name = "get_companies_with_pe_ratio" -> getCompaniesWithPERatio(a.minPE, a.maxPE, s)
    [] name = "get_company_directors" -> getCompanyDirectors(a.companyId, s)
    [] name = "get_board_interlocks" -> getBoardInterlocks(s)
    [] name = "get_directors_by_name" -> getDirectorsByName(a.name, s)
    [] name = "get_company_shareholders" -> getCompanyShareholders(a.companyId, s)
    [] name = "get_shareholder_overlap" -> getShareholderOverlap(s)
    [] name = "get_top_shareholders_by_sector" ->
         getTopShareholdersBySector(a.sector, OrDefault(a.limit, 10), s)
    [] name = "get_historical_prices" ->
         getHistoricalPrices(a.companyId, OrDefault(a.days, 30), s)
    [] name = "get_top_performers" ->
         getTopPerformers(OrDefault(a.days, 7), OrDefault(a.limit, 10), s)
    [] name = "get_recent_news" -> getRecentNews(a.companyId, OrDefault(a.limit, 20), s)
    [] name = "get_news_by_sentiment" ->
         getNewsBySentiment(a.sentiment, OrDefault(a.limit, 20), s)
    [] name = "get_lobbying_meetings" ->
         getLobbyingMeetings(a.companyId, OrDefault(a.limit, 20), s)
    [] name = "get_most_active_lobbyists" -> getMostActiveLobbyists(OrDefault(a.limit, 10), s)
    [] name = "get_esg_scores" -> getESGScores(a.companyId, s)
    [] name = "get_weekly_reports" -> getWeeklyReports(a.reportType, OrDefault(a.limit, 10), s)
    [] name = "get_network_analysis" -> getComplexNetworkAnalysis(s)
    [] name = "get_sector_correlation_analysis" ->
         getSectorCorrelationAnalysis(OrDefault(a.days, 30), s)
    [] name = "analyze_natural_query" -> analyzeNaturalQuery(a.query, a.context, s)
    [] name = "compare_companies" ->
         compareCompanies(a.companies, Get(OrList(a.metrics, Some(<<"all">>))), s)
    [] name = "analyze_trends" ->
         analyzeTrends(a.analysis_type, a.target, OrDefault(a.period, 30),
                       a.include_forecast = Some(TRUE), s)
    [] name = "assess_investment_risk" ->
         assessInvestmentRisk(a.target, Get(OrList(a.risk_types, Some(<<"all">>))), s)
    [] name = "generate_analyst_report" ->
         generateAnalystReport(a.subject, a.report_type, a.include_charts /= Some(FALSE), s)
    [] name = "screen_opportunities" ->
         screenOpportunities(a.screening_criteria, OrDefault(a.limit, 10), s)
    [] name = "execute_custom_query" ->
         executeCustomQuery(a.sql, Get(OrList(a.params, Some(<<>>))), s)
    [] OTHER -> Throw(Error(<<"Unknown tool: ", name>>), s)

\* a handler whose catch block is missing: a failure leaves the handler
CallToolRequestUncaught(name, a, s) ==
  Bind(Dispatch(name, a, s), LAMBDA r :
      IF r.k = "ok" THEN Ok([isError |-> FALSE, text |-> JSONStringify(r.v)], r.s) ELSE r)

\* the handler: the switch inside try/catch.  It returns a payload whatever
\* the switch did
CallToolRequest(name, a, s) ==
  Bind(Dispatch(name, a, s), LAMBDA r :
      IF r.k = "wait" THEN r
      ELSE IF r.k = "ok"
      THEN Ok([isError |-> FALSE, text |-> JSONStringify(r.v)], r.s)
      ELSE Ok([isError |-> TRUE, text |-> <<"Error: ">> \o r.v.msg], r.s))
-----------------------------------------------------------------------------
(* Remote data: companies and argument objects *)

Company(id, symbol, name, sector, market_cap, directors) ==
  [id |-> id, symbol |-> symbol, ticker |-> symbol, name |-> name, sector |-> sector,
   market_cap |-> market_cap, price_to_earnings |-> None, pe_ratio |-> None,
   directors |-> directors]

\* {"data": companies}
CompaniesBody(companies) == [NoBody EXCEPT !.data = Some(companies)]

\* names of the companies of a list, by position
CompanyNames == <<<<"A", "a">>, <<"B", "b">>, <<"E", "e">>, <<"K", "k">>>>
CompanySymbols == <<<<"A">>, <<"B">>, <<"E">>, <<"K">>>>
CompanyIds == <<<<"1">>, <<"2">>, <<"3">>, <<"4">>>>

\* all lists of at most n elements of set S
ListsUpTo(S, n) == UNION {[1..m -> S] : m \in 0..n}

\* what a function returned or threw
Returned(r) == [k |-> r.k, v |-> r.v]

\* the arguments object of a tool call: every property optional (a request
\* without arguments reads the same as one with an empty object)
NoArgs ==
  [symbol |-> None, sector |-> None, minPE |-> None, maxPE |-> None, companyId |-> None,
   name |-> None, limit |-> None, days |-> None, sentiment |-> None, reportType |-> None,
   sql |-> None, params |-> None, query |-> None, context |-> None, companies |-> None,
   metrics |-> None, analysis_type |-> None, target |-> None, period |-> None,
   include_forecast |-> None, risk_types |-> None, subject |-> None, report_type |-> None,
   include_charts |-> None, screening_criteria |-> None]
\* no call has returned
NoPayload == [k |-> "none"]
DispatcherIdle ==
  pc = "idle" /\ tool = "" /\ args = NoArgs /\ oracle = <<>> /\ payload = NoPayload

-----------------------------------------------------------------------------
(* The server: one tool call at a time, the remote service answering each    *)
(* GET in turn                                                               *)

\* the companies the remote service knows
San ==
  Company(<<"1">>, <<"S", "A", "N">>, <<"S", "a", "n", "t", "a", "n", "d", "e", "r">>, Some(<<"B", "a", "n", "k", "i", "n", "g">>), Some(600),
          Some(<<[name |-> <<"X">>, position |-> <<"D">>],
                 [name |-> <<"Y">>, position |-> <<"D">>]>>))
Bbva ==
  Company(<<"2">>, <<"B", "B", "V", "A">>, <<"B", "b", "v", "a">>, Some(<<"E", "n", "e", "r", "g", "y">>), Some(5),
          Some(<<[name |-> <<"X">>, position |-> <<"D">>]>>))

\* a price point
Price(close) == [close |-> close]

\* a response body that answers every endpoint: companies, directors,
\* positions, two price points (newest first), news, meetings and reports
FullBody ==
  [NoBody EXCEPT
     !.data = Some(<<San, Bbva>>),
     !.directors = Some(<<[company_id |-> Some(<<"1">>), name |-> <<"X">>],
                          [company_id |-> Some(<<"2">>), name |-> <<"X">>]>>),
     !.shareholderPositions =
        Some(<<[company_symbol |-> Some(<<"S", "A", "N">>), ticker |-> None,
                shareholder_name |-> Some(<<"F">>), name |-> None, percentage |-> Some(3)],
               [company_symbol |-> None, ticker |-> Some(<<"B", "B", "V", "A">>),
                shareholder_name |-> Some(<<"F">>), name |-> None, percentage |-> Some(5)]>>),
     !.historicalData = Some(<<Price(3), Price(2)>>),
     !.news = Some(<<[title |-> <<"n">>]>>),
     !.meetings = Some(<<[organization_name |-> Some(<<"S", "a", "n", "t", "a", "n", "d", "e", "r">>),
                          eu_institution |-> Some(<<"E">>),
                          quarterly_spending |-> Some(2)]>>),
     !.reports = Some(<<[title |-> <<"r">>]>>)]

\* what the remote service may answer to one GET
Responses ==
  {HttpFail("500", "Internal Server Error"), NetFail, BadJson,
   HttpOk(NullBody), HttpOk(NoBody), HttpOk(FullBody)}

\* argument objects by tool
ArgsOf(name) ==
  CASE name = "get_company_by_symbol" ->
         {[NoArgs EXCEPT !.symbol = x] : x \in {None, Some(<<"S", "A", "N">>), Some(<<"Z">>)}}
    [] name \in {"get_companies_by_sector", "get_top_shareholders_by_sector"} ->
         {[NoArgs EXCEPT !.sector = x] : x \in {None, Some(<<"b", "a", "n", "k">>), Some(ANumber)}}
    [] name = "get_companies_with_pe_ratio" ->
         {[NoArgs EXCEPT !.minPE = x] : x \in {None, Some(10)}}
    [] name \in {"get_company_directors", "get_company_shareholders", "get_historical_prices",
                 "get_recent_news", "get_lobbying_meetings", "get_esg_scores"} ->
         {[NoArgs EXCEPT !.companyId = x] : x \in {None, Some(<<"1">>)}}
    [] name = "get_directors_by_name" ->
         {[NoArgs EXCEPT !.name = x] : x \in {None, Some(<<"x">>), Some(ANumber)}}
    [] name = "get_top_performers" ->
         {[NoArgs EXCEPT !.limit = x] : x \in {None, Some(0), Some(1)}}
    [] name \in {"get_news_by_sentiment", "get_most_active_lobbyists", "get_weekly_reports"} ->
         {[NoArgs EXCEPT !.limit = x] : x \in {None, Some(0)}}
    [] name = "analyze_natural_query" ->
         {[NoArgs EXCEPT !.query = x] :
            x \in {None, Some(ANumber), Some(<<"C", "o", "m", "p", "a", "r", "e", " ", "S", "A", "N", " ", "v", "s", " ", "B", "B", "V", "A">>), Some(<<"r", "i", "s", "k">>), Some(<<"h", "e", "l", "l", "o">>)}}
    [] name = "compare_companies" ->
         {[NoArgs EXCEPT !.companies = x] : x \in {None, Some(<<<<"S", "A", "N">>, <<"Z">>>>)}}
    [] name = "analyze_trends" ->
         {[NoArgs EXCEPT !.analysis_type = x, !.target = Some(<<"S", "A", "N">>)] :
            x \in {None, Some("company_trend"), Some("sector_trend"),
                   Some("market_trend"), Some("correlation_analysis")}}
    [] name = "assess_investment_risk" ->
         {[NoArgs EXCEPT !.target = x, !.risk_types = y] :
            x \in {None, Some(<<"S", "A", "N">>)}, y \in {None, Some(<<"market_risk">>), Some(<<>>)}}
    [] name = "generate_analyst_report" ->
         {[NoArgs EXCEPT !.report_type = x, !.subject = Some(<<"S", "A", "N">>)] :
            x \in {None, Some("company_deep_dive"), Some("sector_overview")}}
    [] name = "screen_opportunities" ->
         {[NoArgs EXCEPT !.screening_criteria = x] :
            x \in {None, Some(NoCriteria), Some([NoCriteria EXCEPT !.market_cap_min = Some(10)])}}
    [] name = "execute_custom_query" ->
         {[NoArgs EXCEPT !.sql = x, !.params = y] :
            x \in {None, Some(<<"S", "E", "L", "E", "C", "T", " ", "1">>), Some(<<"D", "R", "O", "P", " ", "T", "A", "B", "L", "E", " ", "x">>)}, y \in {None, Some(<<>>)}}
    [] OTHER -> {NoArgs}

\* the advertised tools
Tools ==
  {"get_all_companies", "get_company_by_symbol", "get_companies_by_sector",
   "get_companies_with_pe_ratio", "get_company_directors", "get_board_interlocks",
   "get_directors_by_name", "get_company_shareholders", "get_shareholder_overlap",
   "get_top_shareholders_by_sector", "get_historical_prices", "get_top_performers",
   "get_recent_news", "get_news_by_sentiment", "get_lobbying_meetings",
   "get_most_active_lobbyists", "get_esg_scores", "get_weekly_reports",
   "get_network_analysis", "get_sector_correlation_analysis", "analyze_natural_query",
   "compare_companies", "analyze_trends", "assess_investment_risk",
   "generate_analyst_report", "screen_opportunities", "execute_custom_query"}
\* names a client may send
ToolNames == Tools \cup {"no_such_tool", "getAllCompanies"}

\* where the handler stands after the responses delivered so far
After(r) == IF r.k = "wait" THEN "awaiting" ELSE "done"
Outcome(r) == IF r.k = "wait" THEN NoPayload ELSE r

Init ==
  /\ pc = "idle" /\ tool = "" /\ args = NoArgs /\ oracle = <<>> /\ payload = NoPayload
  /\ input = <<>> /\ output = None

\* a client calls a tool: the handler runs up to its first request, or to its end
Call(name, a) ==
  /\ pc = "idle"
  /\ Bind(CallToolRequest(name, a, Start(<<>>)), LAMBDA r :
         pc' = After(r) /\ payload' = Outcome(r))
  /\ tool' = name /\ args' = a /\ oracle' = <<>>
  /\ UNCHANGED <<input, output>>

\* the remote service answers the pending GET: the handler runs on to its
\* next request, or to its end
Deliver(response) ==
  /\ pc = "awaiting"
  /\ Len(oracle) < MaxReq
  /\ Bind(CallToolRequest(tool, args, Start(Append(oracle, response))), LAMBDA r :
         pc' = After(r) /\ payload' = Outcome(r))
  /\ oracle' = Append(oracle, response)
  /\ UNCHANGED <<tool, args, input, output>>

\* the server is ready for the next call
Reset ==
  /\ pc = "done"
  /\ pc' = "idle" /\ tool' = "" /\ args' = NoArgs /\ oracle' = <<>> /\ payload' = NoPayload
  /\ UNCHANGED <<input, output>>

Next ==
  \/ \E name \in ToolNames : \E a \in ArgsOf(name) : Call(name, a)
  \/ \E response \in Responses : Deliver(response)
  \/ Reset

Spec == Init /\ [][Next]_vars

\* the events of the call that has returned
Trace == payload.s.tr
Events(ev) == {i \in 1..Len(Trace) : Trace[i].ev = ev}

\* C1: for every tool name, argument object and behaviour of the remote
\* service the handler returns a payload and never throws: either the JSON
\* text of the result without error flag, or "Error: <message>" with isError;
\* an unknown tool name yields the error payload.
C1_HandlerReturnsPayload ==
  pc = "done" =>
    /\ payload.k = "ok"
    /\ \/ payload.v.isError = FALSE /\ payload.v.text[1] = "JSON"
       \/ payload.v.isError = TRUE /\ payload.v.text[1] = "Error: "
    /\ tool \notin Tools =>
         /\ payload.v.isError
         /\ payload.v.text = <<"Error: ", "Unknown tool: ", tool>>

\* C1 witness: a transport failure inside an advertised tool came back as an
\* error payload
C1_Witness ==
  /\ pc = "done" /\ tool = "get_company_by_symbol" /\ oracle = <<NetFail>>
  /\ payload.k = "ok" /\ payload.v.isError
  /\ payload.v.text[1] = "Error: "

CarriesStatus(msg, response) ==
  \E i \in 1..Len(msg) : \E j \in 1..Len(msg) :
    i < j /\ msg[i] = response.status /\ msg[j] = response.statusText

\* the position in the trace of the k-th GET
NthGet(k) == CHOOSE i \in Events("GET") : Cardinality({j \in Events("GET") : j <= i}) = k

\* C3: each fetch call issues exactly one GET; a non-2xx status, a failed
\* request or a failed JSON parse makes the call fail (with the status code
\* and text in the message when the status is non-2xx), and no second request
\* is issued for that call.
C3_OneGetPerFetch ==
  pc = "done" =>
    /\ \A i \in Events("fetchAPI") :
         /\ i + 2 <= Len(Trace)
         /\ Trace[i + 1].ev = "GET" /\ Trace[i + 1].what = Trace[i].what
         /\ Trace[i + 2].ev \in {"fetchAPI.return", "fetchAPI.throw"}
    /\ \A i \in Events("GET") : i > 1 /\ Trace[i - 1].ev = "fetchAPI"
    /\ Cardinality(Events("GET")) = Len(oracle)
    /\ \A k \in 1..Len(oracle) :
         LET outcome == Trace[NthGet(k) + 1]
         IN  /\ (oracle[k].k = "ok") <=> (outcome.ev = "fetchAPI.return")
             /\ (oracle[k].k /= "ok") <=> (outcome.ev = "fetchAPI.throw")
             /\ oracle[k].k = "http" => CarriesStatus(outcome.msg, oracle[k])

\* C3 witness: a fetch that met a 500 failed, and the next GET belongs to the
\* next fetch call
C3_Witness ==
  /\ pc = "done" /\ tool = "get_top_performers"
  /\ Len(oracle) >= 3 /\ oracle[2] = HttpFail("500", "Internal Server Error")
  /\ Trace[NthGet(2) + 1].ev = "fetchAPI.throw"
  /\ Trace[NthGet(3) - 1].ev = "fetchAPI"

\* the calls whose per-item loops tolerate failures, and analyzeNaturalQuery
LoopTolerant ==
  \/ tool \in {"get_top_performers", "compare_companies", "analyze_natural_query"}
  \/ tool = "analyze_trends" /\ args.analysis_type \in {Some("sector_trend"), Some("market_trend")}
  \/ tool = "generate_analyst_report" /\ args.report_type = Some("sector_overview")

\* C4: a Gateway failure is always surfaced: outside the failure-tolerant
\* per-item loops and analyzeNaturalQuery, an operation during which a fetch
\* failed fails itself; in particular assessInvestmentRisk fails when its
\* company and sector lookups fail.
C4_GatewayFailureSurfaced ==
  (pc = "done" /\ ~LoopTolerant /\ Events("fetchAPI.throw") /= {}) => payload.v.isError

\* the same, leaving out the operations that run assessInvestmentRisk
C4_SurfacedOutsideRiskAssessment ==
  (/\ pc = "done" /\ ~LoopTolerant /\ Events("fetchAPI.throw") /= {}
   /\ tool /= "assess_investment_risk"
   /\ ~(tool = "generate_analyst_report" /\ args.report_type = Some("company_deep_dive")))
    => payload.v.isError

\* the numbers of price points a company's lookup received in trace tr: the
\* bodies of the successful GETs of the price endpoint between the lookup of
\* this company id and the next lookup
PricePointsIn(tr, id) ==
  Bind({i \in 1..Len(tr) : tr[i].ev = "call" /\ tr[i].what = "getHistoricalPrices"}, LAMBDA lookups :
  Bind({i \in lookups : tr[i].msg = Some(id)}, LAMBDA mine :
  Bind(          {j \in 1..Len(tr) :
                    /\ tr[j].ev = "fetchAPI.return"
                    /\ tr[j].what = "/api/historical-prices/company"
                    /\ \E i \in mine : i < j /\ \A m \in (i + 1)..(j - 1) : m \notin lookups}, LAMBDA fetched :
      {Len(Get(OrList(tr[j].msg.historicalData, Some(<<>>)))) : j \in fetched})))

\* C7: getTopPerformers(days, limit) returns at most limit items, sorted
\* non-increasing by period_change, none of a company with fewer than 2 price
\* points; also through the get_top_performers tool with a supplied limit,
\* limit = 0 included.
C7_TopPerformersWithinLimit ==
  (pc = "done" /\ tool = "get_top_performers" /\ IsSome(args.limit) /\ ~payload.v.isError) =>
    LET result == payload.v.text[2]
    IN  /\ Len(result) <= Get(args.limit)
        /\ \A i \in 1..(Len(result) - 1) :
             ~RatGt(result[i + 1].period_change, result[i].period_change)
        /\ \A i \in 1..Len(result) :
             \E c \in {San, Bbva} :
               /\ c.symbol = result[i].symbol
               /\ \E n \in PricePointsIn(Trace, c.id) : n >= 2

-----------------------------------------------------------------------------
(* The per-company scans, called directly: getTopPerformers and             *)
(* analyzeCompanyPerformances over company lists shorter and longer than    *)
(* their caps, the remote service answering the GETs with a repeating       *)
(* pattern of responses                                                     *)

MaxPattern == 3

\* the i-th company of a list
ScanCompany(i) ==
  Company(Digits(i), <<"C">> \o Digits(i), <<"N">> \o Digits(i), Some(<<"S">>), Some(1), None)
ScanList(n) == [i \in 1..n |-> ScanCompany(i)]

\* list lengths below, at and above the two caps
ScanSizes == {0, 1, 2, PerformanceScanCap + 1, ScanCap + 1}

\* a body answering both the company list and the price endpoint
ScanBody(n, prices) ==
  [NoBody EXCEPT !.data = Some(ScanList(n)), !.historicalData = Some(prices)]

\* what the remote service may answer to a GET during a scan of n companies:
\* a failure, two price points, one price point, no companies and no prices,
\* or null
ScanResponses(n) ==
  {HttpFail("503", "Service Unavailable"),
   HttpOk(ScanBody(n, <<Price(3), Price(2)>>)),
   HttpOk(ScanBody(n, <<Price(3)>>)),
   HttpOk(NoBody),
   HttpOk(NullBody)}

\* the pattern repeated to len responses
Cycle(pattern, len) == [i \in 1..len |-> pattern[((i - 1) % Len(pattern)) + 1]]

\* a scan issues at most one GET for the list and two per company
ScanOracle(in) == Cycle(in.pattern, 2 * in.n + 1)

InitScan ==
  /\ input \in UNION {
       [op : {"getTopPerformers"}, n : {n}, limit : {1, ScanCap},
        pattern : ListsUpTo(ScanResponses(n), MaxPattern) \ {<<>>}]
       \cup
       [op : {"analyzeCompanyPerformances"}, n : {n}, limit : {ScanCap},
        pattern : ListsUpTo(ScanResponses(n), MaxPattern) \ {<<>>}]
       : n \in ScanSizes}
  /\ output = None
  /\ DispatcherIdle

ApplyScan ==
  /\ output = None
  /\ Bind(    IF input.op = "getTopPerformers"
              THEN getTopPerformers(7, input.limit, Start(ScanOracle(input)))
              ELSE analyzeCompanyPerformances(ScanList(input.n), 7, Start(ScanOracle(input))), LAMBDA r :
         output' = Some([k |-> r.k, v |-> r.v, tr |-> r.s.tr]))
  /\ UNCHANGED <<input, dispVars>>

NextScan == ApplyScan
SpecScan == InitScan /\ [][NextScan]_vars

\* the initial company list: fetched by getTopPerformers with its first GET,
\* handed to analyzeCompanyPerformances by its caller
ListFetched ==
  \/ input.op = "analyzeCompanyPerformances"
  \/ input.pattern[1].k = "ok" /\ ~input.pattern[1].body.null
InitialList ==
  IF input.op = "analyzeCompanyPerformances" THEN ScanList(input.n)
  ELSE Get(OrList(input.pattern[1].body.data, Some(<<>>)))
\* the companies the loop scans: the first 20, or the first 10
Scanned ==
  Bind(IF input.op = "getTopPerformers" THEN 20 ELSE 10, LAMBDA cap :
      SubSeq(InitialList, 1, IF Len(InitialList) < cap THEN Len(InitialList) ELSE cap))

\* C8: once the initial company list has been fetched, failed lookups for any
\* of the scanned companies (the first 20 for getTopPerformers, the first 10
\* for analyzeCompanyPerformances) never abort the operation: every scanned
\* company is looked up, and the result before truncation has an entry for
\* exactly the scanned companies whose price fetch succeeded with at least 2
\* price points.
C8_ScanNeverAborts ==
  (IsSome(output) /\ ListFetched) =>
    LET out == Get(output)
        expected == {i \in 1..Len(Scanned) :
                       \E n \in PricePointsIn(out.tr, Scanned[i].id) : n >= 2}
        symbols == {out.v[j].symbol : j \in 1..Len(out.v)}
    IN  /\ out.k = "ok"
        /\ \A i \in 1..Len(Scanned) :
             \E j \in 1..Len(out.tr) :
               /\ out.tr[j].ev = "call" /\ out.tr[j].what = "getHistoricalPrices"
               /\ out.tr[j].msg = Some(Scanned[i].id)
        /\ symbols \subseteq {Scanned[i].symbol : i \in expected}
        /\ Cardinality(symbols) = Len(out.v)
        /\ Len(out.v) = IF input.limit < Cardinality(expected) THEN input.limit
                        ELSE Cardinality(expected)

\* C8 witness: a scan of more companies than the cap in which some lookups
\* failed and others produced entries
C8_Witness ==
  /\ IsSome(output) /\ input.op = "getTopPerformers"
  /\ input.n = ScanCap + 1 /\ input.limit = ScanCap
  /\ Get(output).k = "ok"
  /\ Len(Get(output).v) > 0 /\ Len(Get(output).v) < ScanCap
  /\ \E j \in 1..Len(Get(output).tr) :
       /\ Get(output).tr[j].ev = "fetchAPI.throw"
       /\ Get(output).tr[j].what = "/api/historical-prices/company"

-----------------------------------------------------------------------------
(* getCompaniesBySector applied to every small company list and query *)

\* sector values of a remote company: missing, empty, and names in mixed case
SectorValues ==
  {None, Some(<<>>), Some(<<"a">>), Some(<<"B">>), Some(<<"a", "b">>),
   Some(<<"A", "B">>), Some(<<"b", "a">>)}
\* query strings
SectorQueries == {<<>>, <<"a">>, <<"A">>, <<"b">>, <<"a", "B">>, <<"B", "A">>}

SectorCompanies(sectors) ==
  [i \in 1..Len(sectors) |->
     Company(CompanyIds[i], CompanySymbols[i], CompanyNames[i], sectors[i], None, None)]

InitSector ==
  /\ input \in [sectors : ListsUpTo(SectorValues, MaxCompanies), sector : SectorQueries]
  /\ output = None
  /\ DispatcherIdle

ApplySector ==
  /\ output = None
  /\ output' = Some(Returned(getCompaniesBySector(Some(input.sector),
                       Start(<<HttpOk(CompaniesBody(SectorCompanies(input.sectors)))>>))))
  /\ UNCHANGED <<input, dispVars>>

NextSector == ApplySector
SpecSector == InitSector /\ [][NextSector]_vars

\* the claim's own reading of "contains s case-insensitively": some window of
\* the sector equals s letter by letter, ignoring case
SameLetter(x, y) ==
  \/ x = y
  \/ \E i \in 1..Len(UpperChars) : {x, y} = {UpperChars[i], LowerChars[i]}
ContainsIgnoringCase(sector, q) ==
  \E off \in 0..(Len(sector) - Len(q)) :
    \A j \in 1..Len(q) : SameLetter(sector[off + j], q[j])
\* a sector is present when the company carries a non-empty sector value
SectorPresent(company) == company.sector /= None /\ company.sector /= Some(<<>>)

\* the positions of the companies the claim expects, in increasing order
RECURSIVE ExpectedBySector(_, _)
ExpectedBySector(companies, q) ==
  IF companies = <<>> THEN <<>>
  ELSE (IF SectorPresent(Head(companies))
           /\ ContainsIgnoringCase(Get(Head(companies).sector), q)
        THEN <<Head(companies)>> ELSE <<>>)
       \o ExpectedBySector(Tail(companies), q)

\* C5: getCompaniesBySector(s) returns exactly the companies whose sector is
\* present and contains s case-insensitively, in their original order, and
\* never a company without a sector.
C5_SectorFilterExact ==
  IsSome(output) =>
    /\ Get(output).k = "ok"
    /\ Get(output).v = ExpectedBySector(SectorCompanies(input.sectors), input.sector)
    /\ \A i \in 1..Len(Get(output).v) : SectorPresent(Get(output).v[i])

\* C5 witness: a query in another case than the sector keeps the second of two
\* companies and drops the first, which has no sector
C5_Witness ==
  /\ IsSome(output)
  /\ input.sectors = <<None, Some(<<"A", "B">>)>>
  /\ input.sector = <<"a", "B">>
  /\ Len(Get(output).v) = 1
  /\ Get(output).v[1].id = CompanyIds[2]

-----------------------------------------------------------------------------
(* getBoardInterlocks applied to every small company list *)

DirectorNames == {<<"X">>, <<"Y">>}
\* the embedded director list of a remote company: missing, or up to two names
DirectorLists == {None} \cup {Some(l) : l \in ListsUpTo(DirectorNames, 2)}

InterlockCompanies(boards) ==
  [i \in 1..Len(boards) |->
     Company(CompanyIds[i], CompanySymbols[i], CompanyNames[i], None, None,
             IF IsSome(boards[i])
             THEN Some([j \in 1..Len(Get(boards[i])) |->
                          [name |-> Get(boards[i])[j], position |-> <<"D">>]])
             ELSE None)]

InitInterlocks ==
  /\ input \in [boards : ListsUpTo(DirectorLists, MaxCompanies)]
  /\ output = None
  /\ DispatcherIdle

ApplyInterlocks ==
  /\ output = None
  /\ output' = Some(Returned(getBoardInterlocks(
                       Start(<<HttpOk(CompaniesBody(InterlockCompanies(input.boards)))>>))))
  /\ UNCHANGED <<input, dispVars>>

NextInterlocks == ApplyInterlocks
SpecInterlocks == InitInterlocks /\ [][NextInterlocks]_vars

\* the number of distinct companies on whose board `name` appears
BoardsOf(name, boards) ==
  Cardinality({i \in 1..Len(boards) :
                 IsSome(boards[i]) /\ \E j \in 1..Len(Get(boards[i])) : Get(boards[i])[j] = name})

\* C6: every Interlock emitted by getBoardInterlocks has board_count >= 2, its
\* board_count equals the number of distinct companies at which the director
\* name appears, and the output is sorted non-increasing by board_count.
C6_InterlockCounts ==
  IsSome(output) =>
    LET interlocks == Get(output).v
    IN  /\ \A i \in 1..Len(interlocks) :
             /\ interlocks[i].board_count >= 2
             /\ interlocks[i].board_count = BoardsOf(interlocks[i].director_name, input.boards)
        /\ \A i \in 1..(Len(interlocks) - 1) :
             interlocks[i].board_count >= interlocks[i + 1].board_count

\* what does hold of the code: at least two entries per Interlock, sorted
C6_CountsOccurrences ==
  IsSome(output) =>
    LET interlocks == Get(output).v
    IN  /\ \A i \in 1..Len(interlocks) : interlocks[i].board_count >= 2
        /\ \A i \in 1..(Len(interlocks) - 1) :
             interlocks[i].board_count >= interlocks[i + 1].board_count

-----------------------------------------------------------------------------
(* calculateMarketConcentration applied to every small sector breakdown *)

\* sector totals as getSectorCorrelationAnalysis hands them over: sorted
\* non-increasing by total market cap
SortedCaps ==
  LET ofLen[n \in 0..MaxSectors] ==
        IF n = 0 THEN {<<>>}
        ELSE {Append(caps, c) : <<caps, c>> \in
                {x \in ofLen[n - 1] \X (0..MaxCap) :
                   x[1] = <<>> \/ x[2] <= x[1][Len(x[1])]}}
  IN  UNION {ofLen[n] : n \in 0..MaxSectors}

SectorName(i) == [j \in 1..i |-> "s"]

\* the sector_performance entries of one-company sectors with these totals
SectorTotals(caps, factor) ==
  [i \in 1..Len(caps) |->
     SectorEntry(SectorName(i),
                 <<Company(CompanyIds[1], CompanySymbols[1], CompanyNames[1],
                           Some(SectorName(i)), Some(caps[i] * factor), None)>>)]

InitHHI ==
  /\ input \in [caps : SortedCaps, factor : 1..MaxScale]
  /\ output = None
  /\ DispatcherIdle

ApplyHHI ==
  /\ output = None
  /\ output' =
       Some([base |-> calculateMarketConcentration(SectorTotals(input.caps, 1)),
             hhi |-> IF SumSeq(input.caps) = 0 THEN Rat(0, 1)
                     ELSE HhiSum(SectorTotals(input.caps, 1), SumSeq(input.caps)),
             scaled |-> calculateMarketConcentration(SectorTotals(input.caps, input.factor)),
             scaledHhi |-> IF SumSeq(input.caps) = 0 THEN Rat(0, 1)
                           ELSE HhiSum(SectorTotals(input.caps, input.factor),
                                       SumSeq(input.caps) * input.factor)])
  /\ UNCHANGED <<input, dispVars>>

NextHHI == ApplyHHI
SpecHHI == InitHHI /\ [][NextHHI]_vars

\* (hhi and scaledHhi record the unrounded index, which the code computes only
\* when the combined market cap is not 0)

\* the sum of the squared sector totals, and the square of their sum: the
\* index is 10000 * SquareSum / TotalSquared
SquareSum(caps) == SumSeq([i \in 1..Len(caps) |-> caps[i] * caps[i]])
TotalSquared(caps) == SumSeq(caps) * SumSeq(caps)

\* C9: with a positive combined market cap the level is highly_concentrated
\* iff HHI > 2500, moderately_concentrated iff 1500 < HHI <= 2500 and
\* competitive iff HHI <= 1500; exactly 2500 is moderately_concentrated and
\* exactly 1500 is competitive.
C9_ConcentrationThresholds ==
  (IsSome(output) /\ SumSeq(input.caps) > 0) =>
    LET level == Get(output).base.concentration_level
        hhiTimesT2 == 10000 * SquareSum(input.caps)
        t2 == TotalSquared(input.caps)
    IN  /\ (level = "highly_concentrated") <=> (hhiTimesT2 > 2500 * t2)
        /\ (level = "moderately_concentrated")
             <=> (hhiTimesT2 > 1500 * t2 /\ hhiTimesT2 <= 2500 * t2)
        /\ (level = "competitive") <=> (hhiTimesT2 <= 1500 * t2)

\* C9 witness: seven sectors whose index is exactly 1500 are competitive
C9_Witness ==
  /\ IsSome(output)
  /\ input.caps = <<4, 3, 3, 3, 3, 2, 2>>
  /\ 10000 * SquareSum(input.caps) = 1500 * TotalSquared(input.caps)
  /\ Get(output).base.concentration_level = "competitive"

\* four equal sectors: an index of exactly 2500 is moderately_concentrated
C9_ExactUpperBoundary ==
  (IsSome(output) /\ input.caps = <<1, 1, 1, 1>>) =>
    /\ Get(output).hhi = Rat(2500, 1)
    /\ Get(output).base.concentration_level = "moderately_concentrated"

-----------------------------------------------------------------------------
(* getSectorCorrelationAnalysis, called directly on company lists of two    *)
(* symbols with their sectors and market caps varied (caps in 1e8 EUR)      *)

CorrelationCompanies ==
  {[c EXCEPT !.sector = sector, !.market_cap = cap] :
     c \in {San, Bbva}, sector \in {San.sector, Bbva.sector, None},
     cap \in {Some(600), Some(400), None}}

InitCorrelation ==
  /\ input \in [companies : ListsUpTo(CorrelationCompanies, MaxCompanies),
                days : {30}]
  /\ output = None
  /\ DispatcherIdle

ApplyCorrelation ==
  /\ output = None
  /\ output' = Some(Returned(getSectorCorrelationAnalysis(
                    input.days, Start(<<HttpOk(CompaniesBody(input.companies))>>))))
  /\ UNCHANGED <<input, dispVars>>

NextCorrelation == ApplyCorrelation
SpecCorrelation == InitCorrelation /\ [][NextCorrelation]_vars

\* SAN (Banking, 60e9) and BBVA (Banking, 40e9)
BankingPair ==
  <<[San EXCEPT !.market_cap = Some(600)],
    [Bbva EXCEPT !.sector = San.sector, !.market_cap = Some(400)]>>

\* the analysis reports exactly one sector, Banking, with a total of 100e9
OneBankingSector(result) ==
  /\ result.total_sectors = 1
  /\ Len(result.sector_performance) = 1
  /\ result.sector_performance[1].sector = Get(San.sector)
  /\ result.sector_performance[1].total_market_cap = 1000

\* C11 (as stated): for the list SAN (Banking, 60e9), BBVA (Banking, 40e9) the
\* analysis reports one sector Banking with total_market_cap 100e9, an HHI of
\* 5200 and the level highly_concentrated.
C11_BankingPairHhi5200 ==
  (IsSome(output) /\ input.companies = BankingPair) =>
    /\ Get(output).k = "ok"
    /\ OneBankingSector(Get(output).v)
    /\ Get(output).v.market_concentration.hhi_index = 5200
    /\ Get(output).v.market_concentration.concentration_level = "highly_concentrated"

\* C11 (amended): for that list the analysis reports one sector Banking with
\* total_market_cap 100e9, an HHI of 10000 (the index is taken over sectors,
\* and the one sector holds the whole market cap) and the level
\* highly_concentrated.
C11_BankingPairHhi10000 ==
  (IsSome(output) /\ input.companies = BankingPair) =>
    /\ Get(output).k = "ok"
    /\ OneBankingSector(Get(output).v)
    /\ Get(output).v.market_concentration.hhi_index = 10000
    /\ Get(output).v.market_concentration.concentration_level = "highly_concentrated"

\* C11 witness: the analysis has run on the list SAN, BBVA
C11_Witness ==
  /\ IsSome(output) /\ input.companies = BankingPair
  /\ Get(output).k = "ok"
  /\ Get(output).v.largest_sector = Get(San.sector)

-----------------------------------------------------------------------------
(* analyzeNaturalQuery called directly, over queries of every branch and    *)
(* a repeating pattern of remote responses                                  *)

\* queries: a comparison naming two known companies by name, one naming them
\* by symbol, one naming no known company, one that also mentions risk, one
\* per remaining branch, and one matching no pattern
QCompareNames == <<"C", "o", "m", "p", "a", "r", "e", " ", "S", "a", "n", "t", "a", "n", "d", "e", "r", " ", "v", "s", " ", "B", "B", "V", "A">>
QCompareSymbols == <<"c", "o", "m", "p", "a", "r", "e", " ", "S", "A", "N", " ", "v", "s", " ", "B", "B", "V", "A">>
QCompareUnknown == <<"c", "o", "m", "p", "a", "r", "e", " ", "f", "o", "o", " ", "v", "s", " ", "b", "a", "r">>
QRiskCompare == <<"R", "i", "s", "k", ":", " ", "c", "o", "m", "p", "a", "r", "e", " ", "S", "A", "N", " ", "v", "s", " ", "B", "B", "V", "A">>
QBankingRisk == <<"B", "a", "n", "k", "i", "n", "g", " ", "g", "r", "o", "w", "t", "h", " ", "r", "i", "s", "k">>
QSectorTrend == <<"e", "n", "e", "r", "g", "y", " ", "s", "e", "c", "t", "o", "r", " ", "t", "r", "e", "n", "d">>
QPriceForecast == <<"p", "r", "i", "c", "e", " ", "f", "o", "r", "e", "c", "a", "s", "t">>
QGeneral == <<"h", "e", "l", "l", "o">>
Queries ==
  {None, Some(ANumber)}
    \cup {Some(q) : q \in {QCompareNames, QCompareSymbols, QCompareUnknown, QRiskCompare,
                            QBankingRisk, QSectorTrend, QPriceForecast, QGeneral}}

\* what the remote service may answer to a GET during a query
QueryResponses ==
  {HttpFail("500", "Internal Server Error"), NetFail, HttpOk(NoBody), HttpOk(FullBody)}

\* GETs answered during one query; no branch issues more
MaxGets == 16
QueryOracle(in) == Cycle(in.pattern, MaxGets)

InitQuery ==
  /\ input \in [query : Queries, pattern : ListsUpTo(QueryResponses, MaxPattern - 1) \ {<<>>}]
  /\ output = None
  /\ DispatcherIdle

ApplyQuery ==
  /\ output = None
  /\ Bind(analyzeNaturalQuery(input.query, None, Start(QueryOracle(input))), LAMBDA r :
         output' = Some([k |-> r.k, v |-> r.v, tr |-> r.s.tr]))
  /\ UNCHANGED <<input, dispVars>>

NextQuery == ApplyQuery
SpecQuery == InitQuery /\ [][NextQuery]_vars

\* the calls of operation what in the trace of the finished query
QueryCalls(what) ==
  {i \in 1..Len(Get(output).tr) :
     Get(output).tr[i].ev = "call" /\ Get(output).tr[i].what = what}

\* every GET of a query was answered
QueryCompletes == IsSome(output) => Get(output).k /= "wait"

\* C12: on 'Compare Santander vs BBVA' analyzeNaturalQuery extracts the
\* aliases SAN and BBVA and passes exactly that list to compareCompanies; on a
\* comparison query naming fewer than two known companies ('compare foo vs
\* bar') it calls no comparison and returns normally, its results holding an
\* error message and a suggestion.
C12_ComparisonAliases ==
  IsSome(output) =>
    /\ input.query = Some(QCompareNames) =>
         /\ QueryCalls("compareCompanies") /= {}
         /\ \A i \in QueryCalls("compareCompanies") :
              Get(output).tr[i].msg = Some(<<<<"S", "A", "N">>, <<"B", "B", "V", "A">>>>)
    /\ input.query = Some(QCompareUnknown) =>
         /\ QueryCalls("compareCompanies") = {}
         /\ Get(output).k = "ok"
         /\ IsSome(Get(output).v.results)
         /\ DOMAIN Get(Get(output).v.results) = {"error", "suggestion"}

\* the list the code passes on 'Compare Santander vs BBVA': the matched texts
\* in upper case
C12_MatchedTextsPassed ==
  (IsSome(output) /\ input.query = Some(QCompareNames)) =>
    /\ Cardinality(QueryCalls("compareCompanies")) = 1
    /\ \A i \in QueryCalls("compareCompanies") :
         Get(output).tr[i].msg = Some(<<<<"S", "A", "N", "T", "A", "N", "D", "E", "R">>, <<"B", "B", "V", "A">>>>)

\* the second half of C12 alone
C12_UnknownCompaniesNoComparison ==
  (IsSome(output) /\ input.query = Some(QCompareUnknown)) =>
    /\ QueryCalls("compareCompanies") = {}
    /\ Get(output).k = "ok"
    /\ IsSome(Get(output).v.results)
    /\ DOMAIN Get(Get(output).v.results) = {"error", "suggestion"}

\* the finished query returned an analysis that carries both the error message
\* and the fallback suggestion whenever no branch produced results
StructuredResult ==
  /\ Get(output).k = "ok"
  /\ IsSome(Get(output).v.error) <=> ~IsSome(Get(output).v.results)
  /\ IsSome(Get(output).v.error) <=> IsSome(Get(output).v.fallback_suggestion)

\* C13: analyzeNaturalQuery never propagates an exception: for every query
\* argument, an absent one included, and every pattern of remote failures it
\* returns a structured result, and whenever an error occurred inside it the
\* result carries an error message and the fallback suggestion.
C13_NeverPropagates == IsSome(output) => StructuredResult

\* the same for the queries that are strings
C13_StringQueryNeverPropagates ==
  (IsSome(output) /\ IsString(input.query)) => StructuredResult

\* a query that is not a string makes the method throw a TypeError
C13_NonStringQueryThrows ==
  (IsSome(output) /\ ~IsString(input.query)) =>
    /\ Get(output).k = "err"
    /\ Get(output).v.name = "TypeError"
    /\ Get(output).tr = <<Event("call", "analyzeNaturalQuery", <<>>, input.query)>>

-----------------------------------------------------------------------------
(* compareCompanies called directly, over lists of known and unknown        *)
(* symbols and a repeating pattern of remote responses                      *)

\* the strings a caller may name: two symbols of the remote list and one that
\* matches no company
CompareInputs == {San.symbol, Bbva.symbol, <<"Z", "Z", "Z">>}

InitCompare ==
  /\ input \in [companies : ListsUpTo(CompareInputs, MaxCompanies),
                pattern : ListsUpTo(QueryResponses, MaxPattern - 1) \ {<<>>}]
  /\ output = None
  /\ DispatcherIdle

ApplyCompare ==
  /\ output = None
  /\ Bind(compareCompanies(Some(input.companies), <<"all">>, Start(QueryOracle(input))), LAMBDA r :
         output' = Some([k |-> r.k, v |-> r.v, tr |-> r.s.tr]))
  /\ UNCHANGED <<input, dispVars>>

NextCompare == ApplyCompare
SpecCompare == InitCompare /\ [][NextCompare]_vars

\* entry is the entry of the input string companyInput: its data entry or its
\* error entry
EntryOf(entry, companyInput) ==
  \/ /\ IsSome(entry.basic_info) /\ ~IsSome(entry.error)
     /\ Get(entry.basic_info).symbol = companyInput
  \/ /\ IsSome(entry.error) /\ ~IsSome(entry.basic_info)
     /\ entry.symbol = Some(companyInput)

\* C14: for every input list of company strings compareCompanies completes
\* without failing and detailed_comparison holds exactly one entry per input,
\* in input order: the data entry of the company, or an error entry for that
\* input (also when the input matches no company symbol); hence
\* companies_compared is the number of inputs.
C14_OneEntryPerInput ==
  IsSome(output) =>
    /\ Get(output).k = "ok"
    /\ Get(output).v.companies_compared = Len(input.companies)
    /\ Len(Get(output).v.detailed_comparison) = Len(input.companies)
    /\ \A i \in 1..Len(input.companies) :
         EntryOf(Get(output).v.detailed_comparison[i], input.companies[i])

\* what the code guarantees: it completes, and the entries are, in input
\* order, those of some of the inputs
C14_EntriesOfSomeInputs ==
  IsSome(output) =>
    /\ Get(output).k = "ok"
    /\ Get(output).v.companies_compared = Len(Get(output).v.detailed_comparison)
    /\ \E kept \in SUBSET (1..Len(input.companies)) :
         /\ Cardinality(kept) = Len(Get(output).v.detailed_comparison)
         /\ \A i \in kept :
              EntryOf(Get(output).v.detailed_comparison[Cardinality({j \in kept : j <= i})],
                      input.companies[i])

\* an input that matches no symbol of a list the remote service returned
\* leaves no entry
C14_UnknownSymbolSkipped ==
  (/\ IsSome(output)
   /\ input.companies = <<<<"Z", "Z", "Z">>>>
   /\ input.pattern[1] = HttpOk(FullBody))
    => Get(output).v.detailed_comparison = <<>>

-----------------------------------------------------------------------------
(* generateAnalystReport called directly, over the advertised report types, *)
(* an unadvertised one and an absent one                                    *)

\* the enum of report_type in the tool schema
AdvertisedReportTypes ==
  {"company_deep_dive", "sector_overview", "governance_analysis", "market_opportunity",
   "risk_assessment"}
\* the cases of the switch of generateAnalystReport
ImplementedReportTypes == {"company_deep_dive", "sector_overview"}

InitReport ==
  /\ input \in [subject : {None, Some(San.symbol), Some(<<"b", "a", "n", "k", "i", "n", "g">>)},
                report_type : {None, Some("quarterly")}
                                \cup {Some(t) : t \in AdvertisedReportTypes},
                include_charts : BOOLEAN,
                pattern : {<<r>> : r \in QueryResponses}]
  /\ output = None
  /\ DispatcherIdle

ApplyReport ==
  /\ output = None
  /\ Bind(generateAnalystReport(input.subject, input.report_type, input.include_charts,
                                Start(QueryOracle(input))), LAMBDA r :
         output' = Some([k |-> r.k, v |-> r.v, tr |-> r.s.tr]))
  /\ UNCHANGED <<input, dispVars>>

NextReport == ApplyReport
SpecReport == InitReport /\ [][NextReport]_vars

-----------------------------------------------------------------------------
(* screenOpportunities called directly, the remote service answering its    *)
(* GET with the company list                                                *)

\* companies that differ in what the score looks at: P/E below 15, above 25
\* or absent, a large or a small market cap, a bonus sector or none
ScreenCompanies ==
  {[San EXCEPT !.price_to_earnings = pe, !.market_cap = cap, !.sector = sector] :
     pe \in {None, Some(10), Some(30)}, cap \in {Some(600), Some(5)},
     sector \in {San.sector, None}}

InitScreen ==
  /\ input \in [companies : ListsUpTo(ScreenCompanies, MaxCompanies),
                criteria : {NoCriteria, [NoCriteria EXCEPT !.market_cap_min = Some(10)]},
                limit : 0..MaxCompanies]
  /\ output = None
  /\ DispatcherIdle

ApplyScreen ==
  /\ output = None
  /\ output' = Some(Returned(screenOpportunities(
                      Some(input.criteria), input.limit,
                      Start(<<HttpOk(CompaniesBody(input.companies))>>))))
  /\ UNCHANGED <<input, dispVars>>

NextScreen == ApplyScreen
SpecScreen == InitScreen /\ [][NextScreen]_vars

\* the clamped scores of all the companies that pass the filters of the
\* criteria, truncated or not
CandidateScores ==
  [i \in 1..Len(ScreenFilter(input.companies, input.criteria)) |->
     Clamp(ScoreOf(ScreenFilter(input.companies, input.criteria)[i]))]

\* C16: for every company list, criteria object and limit >= 0,
\* screenOpportunities returns opportunities whose scores all lie in [0, 10],
\* sorted non-increasing by score and at most limit in number, while
\* summary.companies_passed_screening and summary.average_score are computed
\* over all scored candidates, before the truncation.
C16_ScreenedOpportunities ==
  IsSome(output) =>
    /\ Get(output).k = "ok"
    /\ LET opportunities == Get(output).v.opportunities
           summary == Get(output).v.summary
       IN  /\ \A i \in 1..Len(opportunities) :
                /\ ~RatGt(Rat(0, 1), opportunities[i].score)
                /\ ~RatGt(opportunities[i].score, Rat(10, 1))
           /\ \A i \in 1..Len(opportunities) : \A j \in 1..Len(opportunities) :
                i < j => ~RatGt(opportunities[j].score, opportunities[i].score)
           /\ Len(opportunities) <= input.limit
           /\ summary.companies_passed_screening = Len(CandidateScores)
           /\ Len(opportunities) = Min({input.limit, Len(CandidateScores)})
           /\ IF CandidateScores = <<>> THEN summary.average_score = Rat(0, 1)
              ELSE RatEq(summary.average_score, Mean(CandidateScores))

\* C16 witness: two candidates with different scores, given in increasing
\* order of score, were truncated to the better one
C16_Witness ==
  /\ IsSome(output) /\ Get(output).k = "ok"
  /\ input.limit = 1
  /\ Len(input.companies) = 2
  /\ Get(output).v.summary.companies_passed_screening = 2
  /\ RatGt(Clamp(ScoreOf(input.companies[2])), Clamp(ScoreOf(input.companies[1])))
  /\ Len(Get(output).v.opportunities) = 1
  /\ ~RatEq(Get(output).v.summary.average_score, Get(output).v.opportunities[1].score)

-----------------------------------------------------------------------------
(* The basic server (src/src/index.ts) beside the enhanced one: the same    *)
(* call handled by both handlers against the same remote responses.  The    *)
(* façade and the two analytics methods the basic server calls have the     *)
(* same text in both versions                                               *)

\* a basic switch whose price history defaults to a week
DispatchBasicWeekOfPrices(name, a, s) ==
  CASE name = "get_all_companies" -> getAllCompanies(s)
    [] name = "get_company_by_symbol" -> getCompanyBySymbol(a.symbol, s)
    [] name = "get_companies_by_sector" -> getCompaniesBySector(a.sector, s)
    [] name = "get_companies_with_pe_ratio" -> getCompaniesWithPERatio(a.minPE, a.maxPE, s)
    [] name = "get_company_directors" -> getCompanyDirectors(a.companyId, s)
    [] name = "get_board_interlocks" -> getBoardInterlocks(s)
    [] name = "get_directors_by_name" -> getDirectorsByName(a.name, s)
    [] name = "get_company_shareholders" -> getCompanyShareholders(a.companyId, s)
    [] name = "get_shareholder_overlap" -> getShareholderOverlap(s)
    [] name = "get_top_shareholders_by_sector" ->
         getTopShareholdersBySector(a.sector, OrDefault(a.limit, 10), s)
    [] name = "get_historical_prices" ->
         getHistoricalPrices(a.companyId, OrDefault(a.days, 7), s)
    [] name = "get_top_performers" ->
         getTopPerformers(OrDefault(a.days, 7), OrDefault(a.limit, 10), s)
    [] name = "get_recent_news" -> getRecentNews(a.companyId, OrDefault(a.limit, 20), s)
    [] name = "get_news_by_sentiment" ->
         getNewsBySentiment(a.sentiment, OrDefault(a.limit, 20), s)
    [] name = "get_lobbying_meetings" ->
         getLobbyingMeetings(a.companyId, OrDefault(a.limit, 20), s)
    [] name = "get_most_active_lobbyists" -> getMostActiveLobbyists(OrDefault(a.limit, 10), s)
    [] name = "get_esg_scores" -> getESGScores(a.companyId, s)
    [] name = "get_weekly_reports" -> getWeeklyReports(a.reportType, OrDefault(a.limit, 10), s)
    [] name = "get_network_analysis" -> getComplexNetworkAnalysis(s)
    [] name = "get_sector_correlation_analysis" ->
         getSectorCorrelationAnalysis(OrDefault(a.days, 30), s)
    [] name = "execute_custom_query" ->
         executeCustomQuery(a.sql, Get(OrList(a.params, Some(<<>>))), s)
    [] OTHER -> Throw(Error(<<"Unknown tool: ", name>>), s)

\* the switch over the tool name of the basic server
DispatchBasic(name, a, s) ==
  CASE name = "get_all_companies" -> getAllCompanies(s)
    [] name = "get_company_by_symbol" -> getCompanyBySymbol(a.symbol, s)
    [] name = "get_companies_by_sector" -> getCompaniesBySector(a.sector, s)
    [] name = "get_companies_with_pe_ratio" -> getCompaniesWithPERatio(a.minPE, a.maxPE, s)
    [] name = "get_company_directors" -> getCompanyDirectors(a.companyId, s)
    [] name = "get_board_interlocks" -> getBoardInterlocks(s)
    [] name = "get_directors_by_name" -> getDirectorsByName(a.name, s)
    [] name = "get_company_shareholders" -> getCompanyShareholders(a.companyId, s)
    [] name = "get_shareholder_overlap" -> getShareholderOverlap(s)
    [] name = "get_top_shareholders_by_sector" ->
         getTopShareholdersBySector(a.sector, OrDefault(a.limit, 10), s)
    [] name = "get_historical_prices" ->
         getHistoricalPrices(a.companyId, OrDefault(a.days, 30), s)
    [] name = "get_top_performers" ->
         getTopPerformers(OrDefault(a.days, 7), OrDefault(a.limit, 10), s)
    [] name = "get_recent_news" -> getRecentNews(a.companyId, OrDefault(a.limit, 20), s)
    [] name = "get_news_by_sentiment" ->
         getNewsBySentiment(a.sentiment, OrDefault(a.limit, 20), s)
    [] name = "get_lobbying_meetings" ->
         getLobbyingMeetings(a.companyId, OrDefault(a.limit, 20), s)
    [] name = "get_most_active_lobbyists" -> getMostActiveLobbyists(OrDefault(a.limit, 10), s)
    [] name = "get_esg_scores" -> getESGScores(a.companyId, s)
    [] name = "get_weekly_reports" -> getWeeklyReports(a.reportType, OrDefault(a.limit, 10), s)
    [] name = "get_network_analysis" -> getComplexNetworkAnalysis(s)
    [] name = "get_sector_correlation_analysis" ->
         getSectorCorrelationAnalysis(OrDefault(a.days, 30), s)
    [] name = "execute_custom_query" ->
         executeCustomQuery(a.sql, Get(OrList(a.params, Some(<<>>))), s)
    [] OTHER -> Throw(Error(<<"Unknown tool: ", name>>), s)

\* the handler of the basic server: its switch inside try/catch
CallToolRequestBasic(name, a, s) ==
  Bind(DispatchBasic(name, a, s), LAMBDA r :
      IF r.k = "wait" THEN r
      ELSE IF r.k = "ok"
      THEN Ok([isError |-> FALSE, text |-> JSONStringify(r.v)], r.s)
      ELSE Ok([isError |-> TRUE, text |-> <<"Error: ">> \o r.v.msg], r.s))

\* the tool names the basic switch has a case for
BasicTools ==
  Tools \ {"analyze_natural_query", "compare_companies", "analyze_trends",
           "assess_investment_risk", "generate_analyst_report", "screen_opportunities"}

InitCompat ==
  /\ input \in UNION {[tool : {name}, args : ArgsOf(name),
                       pattern : ListsUpTo(Responses, MaxPattern - 1) \ {<<>>}]
                      : name \in ToolNames}
  /\ output = None
  /\ DispatcherIdle

\* the call handled by the basic and by the enhanced handler
ApplyCompat ==
  /\ output = None
  /\ Bind(CallToolRequestBasic(input.tool, input.args, Start(QueryOracle(input))), LAMBDA b :
     Bind(CallToolRequest(input.tool, input.args, Start(QueryOracle(input))), LAMBDA e :
         output' = Some([basic |-> [k |-> b.k, v |-> b.v, tr |-> b.s.tr],
                         enhanced |-> [k |-> e.k, v |-> e.v, tr |-> e.s.tr]])))
  /\ UNCHANGED <<input, dispVars>>

NextCompat == ApplyCompat
SpecCompat == InitCompat /\ [][NextCompat]_vars

\* both handlers ran to their end
CompatCompletes ==
  IsSome(output) => (Get(output).basic.k = "ok" /\ Get(output).enhanced.k = "ok")

\* C17: backward compatibility: for every tool name the basic dispatcher
\* handles, every argument object and the same remote responses, the enhanced
\* dispatcher makes the same calls with the same effective arguments (the same
\* trace of operations and requests) and returns the same payload; the
\* outcome differs only for tool names unknown to the basic dispatcher, which
\* it refuses as unknown tools.
C17_BackwardCompatible ==
  IsSome(output) =>
    /\ input.tool \in BasicTools => Get(output).enhanced = Get(output).basic
    /\ Get(output).enhanced /= Get(output).basic => input.tool \notin BasicTools
    /\ input.tool \notin BasicTools =>
         /\ Get(output).basic.v.isError
         /\ Get(output).basic.v.text = <<"Error: ", "Unknown tool: ", input.tool>>
         /\ Get(output).basic.tr = <<>>

\* C17 witness: a basic tool with a defaulted argument, answered from the
\* remote data by both handlers with the same requests and the same payload
C17_Witness ==
  /\ IsSome(output)
  /\ input.tool = "get_top_performers" /\ input.args.limit = None
  /\ input.pattern = <<HttpOk(FullBody)>>
  /\ ~Get(output).basic.v.isError
  /\ Get(output).enhanced = Get(output).basic
  /\ \E i \in 1..Len(Get(output).basic.tr) : Get(output).basic.tr[i].ev = "GET"

-----------------------------------------------------------------------------
(* Concurrent tool calls: the handler is an async function, so a second     *)
(* call may start while the first awaits a response.  Each invocation keeps *)
(* its locals (tool name, arguments, the responses it has received) in its  *)
(* own continuation; the server object holds the DatabaseManager with the   *)
(* base URL and the API key                                                 *)

\* the invocations in flight together
Invocations == {"a", "b"}

\* the DatabaseManager as the constructor leaves it
Configs == [apiUrl : {"https://ibex35-api.ncdata.eu"}, apiKey : {None, Some("key")}]

\* the calls a client makes concurrently
ConcurrentCalls ==
  {[tool |-> "get_company_by_symbol", args |-> [NoArgs EXCEPT !.symbol = Some(San.symbol)]],
   [tool |-> "get_top_performers", args |-> [NoArgs EXCEPT !.limit = Some(1)]],
   [tool |-> "compare_companies",
    args |-> [NoArgs EXCEPT !.companies = Some(<<San.symbol, Bbva.symbol>>)]]}

\* what the remote service may answer to one GET of a concurrent call
ConcurrentResponses == {HttpFail("500", "Internal Server Error"), HttpOk(FullBody)}

\* responses delivered to one invocation
MaxOwnReq == MaxReq - 2

InitConcurrent ==
  /\ pc = [i \in Invocations |-> "idle"]
  /\ tool = [i \in Invocations |-> ""]
  /\ args = [i \in Invocations |-> NoArgs]
  /\ oracle = [i \in Invocations |-> <<>>]
  /\ payload = [i \in Invocations |-> NoPayload]
  /\ input \in Configs
  /\ output = <<>>

\* a client calls a tool while other invocations may be suspended: the handler
\* runs up to its first request, or to its end
CallConcurrent(i, call) ==
  /\ pc[i] = "idle"
  /\ Bind(CallToolRequest(call.tool, call.args, Start(<<>>)), LAMBDA r :
       /\ pc' = [pc EXCEPT ![i] = After(r)]
       /\ payload' = [payload EXCEPT ![i] = Outcome(r)])
  /\ tool' = [tool EXCEPT ![i] = call.tool]
  /\ args' = [args EXCEPT ![i] = call.args]
  /\ UNCHANGED <<oracle, input, output>>

\* a response that reaches every suspended invocation
DeliverShared(i, response) ==
  /\ pc[i] = "awaiting"
  /\ Len(oracle[i]) < MaxOwnReq
  /\ oracle' = [j \in Invocations |->
                  IF pc[j] = "awaiting" THEN Append(oracle[j], response) ELSE oracle[j]]
  /\ pc' = [j \in Invocations |->
              IF pc[j] = "awaiting"
              THEN After(CallToolRequest(tool[j], args[j], Start(oracle'[j]))) ELSE pc[j]]
  /\ payload' = [j \in Invocations |->
                   IF pc[j] = "awaiting"
                   THEN Outcome(CallToolRequest(tool[j], args[j], Start(oracle'[j])))
                   ELSE payload[j]]
  /\ output' = Append(output, [inv |-> i, response |-> response])
  /\ UNCHANGED <<tool, args, input>>

\* the remote service answers the outstanding request of invocation i: the
\* await of fetch resumes that invocation alone, which runs up to its next
\* request, or to its end
DeliverConcurrent(i, response) ==
  /\ pc[i] = "awaiting"
  /\ Len(oracle[i]) < MaxOwnReq
  /\ oracle' = [oracle EXCEPT ![i] = Append(@, response)]
  /\ Bind(CallToolRequest(tool[i], args[i], Start(oracle'[i])), LAMBDA r :
       /\ pc' = [pc EXCEPT ![i] = After(r)]
       /\ payload' = [payload EXCEPT ![i] = Outcome(r)])
  /\ output' = Append(output, [inv |-> i, response |-> response])
  /\ UNCHANGED <<tool, args, input>>

NextConcurrent ==
  \/ \E i \in Invocations : \E call \in ConcurrentCalls : CallConcurrent(i, call)
  \/ \E i \in Invocations : \E response \in ConcurrentResponses : DeliverConcurrent(i, response)
SpecConcurrent == InitConcurrent /\ [][NextConcurrent]_vars

\* the responses the remote service gave to the requests of invocation i, in
\* the order it gave them
OwnResponses(i) ==
  LET R[n \in 0..Len(output)] ==
        IF n = 0 THEN <<>>
        ELSE R[n - 1] \o (IF output[n].inv = i THEN <<output[n].response>> ELSE <<>>)
  IN  R[Len(output)]

\* what invocation i would have produced running alone on its own tool name,
\* arguments and responses
Alone(i) == CallToolRequest(tool[i], args[i], Start(OwnResponses(i)))

\* where every started invocation stands, and the payload of every finished
\* one, is what it would be had the invocation run alone
IsolatedPayloads ==
  \A i \in Invocations :
    pc[i] /= "idle" => (pc[i] = After(Alone(i)) /\ payload[i] = Outcome(Alone(i)))

-----------------------------------------------------------------------------
(* The requests of one invocation, moment by moment (specification Spec)    *)

\* the events of the current call up to now: the run of the handler on the
\* responses delivered so far
History == CallToolRequest(tool, args, Start(oracle)).s.tr

\* the requests issued and not yet completed or failed after the first n
\* events of trace tr
Outstanding(tr, n) ==
  Cardinality({i \in 1..n : tr[i].ev = "GET"})
    - Cardinality({i \in 1..n : tr[i].ev \in {"fetchAPI.return", "fetchAPI.throw"}})

\* C19: within one tool invocation the outbound requests are strictly
\* sequential: at every moment the invocation has at most one outstanding
\* request, and the next request is issued only after the previous one has
\* completed or failed, also in the per-company loops of getTopPerformers,
\* analyzeCompanyPerformances and compareCompanies.
C19_RequestsSequential ==
  pc /= "idle" =>
    Bind(History, LAMBDA tr :
      /\ \A n \in 0..Len(tr) : Outstanding(tr, n) \in {0, 1}
      /\ \A n \in 1..Len(tr) : tr[n].ev = "GET" => Outstanding(tr, n - 1) = 0
      /\ Outstanding(tr, Len(tr)) = 1 <=> pc = "awaiting"
      /\ Cardinality({i \in 1..Len(tr) : tr[i].ev \in {"fetchAPI.return", "fetchAPI.throw"}})
           = Len(oracle))

\* some call of operation what is in trace tr
Entered(tr, what) == \E i \in 1..Len(tr) : tr[i].ev = "call" /\ tr[i].what = what

\* C19 witness: inside the loop of getTopPerformers the lookup of the second
\* company awaits its response, the lookups before it having completed or
\* failed
C19_Witness ==
  /\ pc = "awaiting" /\ tool = "get_top_performers"
  /\ Bind(History, LAMBDA tr :
       /\ Cardinality({i \in 1..Len(tr) :
                         tr[i].ev = "call" /\ tr[i].what = "getHistoricalPrices"}) = 2
       /\ \E i \in 1..Len(tr) : tr[i].ev = "fetchAPI.throw"
       /\ tr[Len(tr)].ev = "GET")

\* the loops of compareCompanies and analyzeCompanyPerformances suspended
\* after three responses
InCompareLoop ==
  pc = "awaiting" /\ Len(oracle) >= 3 /\ Entered(History, "compareCompanies")
InPerformancesLoop ==
  pc = "awaiting" /\ Len(oracle) >= 3 /\ Entered(History, "analyzeCompanyPerformances")

-----------------------------------------------------------------------------
(* The branch a query takes (specification SpecQuery)                       *)

\* the branches in the order their patterns are tested
BranchOrder == <<"banking", "risk", "comparison", "sector", "price">>

\* the pattern of a branch matches the lower-cased query
PatternMatches(branch, lowerQuery) ==
  CASE branch = "banking" -> MatchesWordThenWord(lowerQuery, BankingWords, GrowthWords)
    [] branch = "risk" -> MatchesWord(lowerQuery, RiskWords)
    [] branch = "comparison" -> MatchesWord(lowerQuery, CompareWords)
    [] branch = "sector" -> MatchesPrefixThenWord(lowerQuery, SectorWords, SectorTrendWords)
    [] branch = "price" -> MatchesWord(lowerQuery, PriceWords)

\* the first branch in order whose pattern matches, the fallback when none does
FirstMatching(lowerQuery) ==
  IF \E k \in 1..Len(BranchOrder) : PatternMatches(BranchOrder[k], lowerQuery)
  THEN BranchOrder[CHOOSE k \in 1..Len(BranchOrder) :
                     /\ PatternMatches(BranchOrder[k], lowerQuery)
                     /\ \A j \in 1..(k - 1) : ~PatternMatches(BranchOrder[j], lowerQuery)]
  ELSE "general"

\* the calls, with their numeric arguments, that only one branch makes
CallsOnlyOf(branch) ==
  CASE branch = "banking" ->
         {<<"getCompaniesBySector", <<>>>>, <<"analyzeCompanyPerformances", <<>>>>}
    [] branch = "risk" -> {<<"getBoardInterlocks", <<>>>>}
    [] branch = "comparison" -> {<<"compareCompanies", <<>>>>}
    [] branch = "sector" -> {<<"getSectorCorrelationAnalysis", <<30>>>>}
    [] branch = "price" -> {<<"getTopPerformers", <<30, 10>>>>}
    [] OTHER -> {<<"getTopPerformers", <<7, 5>>>>, <<"getRecentNews", <<5>>>>}

\* the branches some call of trace tr belongs to
BranchesCalled(tr) ==
  {branch \in {BranchOrder[k] : k \in 1..Len(BranchOrder)} \cup {"general"} :
     \E i \in 1..Len(tr) :
       /\ tr[i].ev = "call"
       /\ <<tr[i].what, tr[i].arg>> \in CallsOnlyOf(branch)
       /\ ~(tr[i].what = "getRecentNews" /\ IsSome(tr[i].msg))}

\* the interpretation text each branch writes
InterpretationOf(branch) ==
  CASE branch = "banking" -> <<"B", "a", "n", "k", "i", "n", "g", " ", "s", "e", "c", "t", "o", "r", " ", "p", "e", "r", "f", "o", "r", "m", "a", "n", "c", "e", " ", "a", "n", "a", "l", "y", "s", "i", "s">>
    [] branch = "risk" -> <<"R", "i", "s", "k", " ", "a", "s", "s", "e", "s", "s", "m", "e", "n", "t", " ", "a", "n", "a", "l", "y", "s", "i", "s">>
    [] branch = "comparison" -> <<"C", "o", "m", "p", "a", "n", "y", " ", "c", "o", "m", "p", "a", "r", "i", "s", "o", "n", " ", "a", "n", "a", "l", "y", "s", "i", "s">>
    [] branch = "sector" -> <<" ", "s", "e", "c", "t", "o", "r", " ", "p", "e", "r", "f", "o", "r", "m", "a", "n", "c", "e", " ", "a", "n", "a", "l", "y", "s", "i", "s">>
    [] branch = "price" -> <<"P", "r", "i", "c", "e", " ", "t", "r", "e", "n", "d", " ", "a", "n", "a", "l", "y", "s", "i", "s">>
    [] OTHER -> <<"G", "e", "n", "e", "r", "a", "l", " ", "m", "a", "r", "k", "e", "t", " ", "o", "v", "e", "r", "v", "i", "e", "w">>

\* text ends with suffix
EndsWith(text, suffix) ==
  Len(text) >= Len(suffix)
    /\ SubSeq(text, Len(text) - Len(suffix) + 1, Len(text)) = suffix

\* C20: natural-language routing executes exactly one branch per query: the
\* first, in the order banking-performance, risk/governance, comparison,
\* sector-performance, price/trend, whose pattern matches the lower-cased
\* query, and the general fallback iff none matches; no call that belongs to
\* another branch is made (a query matching both the risk and the comparison
\* patterns is handled as risk and never calls compareCompanies).
C20_ExactlyOneBranch ==
  (IsSome(output) /\ IsString(input.query)) =>
    Bind(FirstMatching(toLowerCase(Get(input.query))), LAMBDA first :
      /\ Get(output).k = "ok"
      /\ EndsWith(Get(output).v.interpretation, InterpretationOf(first))
      /\ \A branch \in {"banking", "risk", "comparison", "price", "general"} :
           Get(output).v.interpretation = InterpretationOf(branch) => branch = first
      /\ BranchesCalled(Get(output).tr) \subseteq {first}
      /\ (input.pattern[1].k = "ok" /\ Get(input.query) /= QCompareUnknown)
           => BranchesCalled(Get(output).tr) = {first})

\* C20 witness: the query that mentions risk and a comparison was answered by
\* the risk branch, from the remote data
C20_Witness ==
  /\ IsSome(output)
  /\ input.query = Some(QRiskCompare)
  /\ input.pattern = <<HttpOk(FullBody)>>
  /\ Get(output).v.interpretation = InterpretationOf("risk")
  /\ IsSome(Get(output).v.results)
  /\ BranchesCalled(Get(output).tr) = {"risk"}

-----------------------------------------------------------------------------
(* The interpretation and the execution plan of a query (SpecQuery).  Both  *)
(* are written before the first call of the branch and never afterwards, so *)
(* the returned analysis holds the values they had at that call             *)

\* C21: in every branch of analyzeNaturalQuery, when the branch issues its
\* first facade or analytics call the interpretation string is non-empty and
\* the execution_plan list is non-empty, and both remain so in the returned
\* result.
C21_InterpretationAndPlanSet ==
  (IsSome(output) /\ IsString(input.query)) =>
    /\ Get(output).k = "ok"
    /\ Get(output).v.interpretation /= <<>>
    /\ Get(output).v.execution_plan /= <<>>

\* what the code does: every branch writes an interpretation, the banking and
\* the risk branch alone write a plan
C21_PlanOfBankingAndRiskOnly ==
  (IsSome(output) /\ IsString(input.query)) =>
    /\ Get(output).k = "ok"
    /\ Get(output).v.interpretation /= <<>>
    /\ Get(output).v.execution_plan /= <<>>
         <=> FirstMatching(toLowerCase(Get(input.query))) \in {"banking", "risk"}

-----------------------------------------------------------------------------
(* generateComparisonSummary over entries whose 30-day windows fall, stay   *)
(* flat or rise                                                             *)

\* price windows (newest first) of one point, and of a change of -5%, 0%
\* and +5%
SummaryWindows ==
  {<<Price(100)>>, <<Price(95), Price(100)>>, <<Price(100), Price(100)>>,
   <<Price(105), Price(100)>>}

\* the entries compareCompanies pushes: the data entry of a company over a
\* window, or an inline error
SummaryEntries ==
  {[NoEntry EXCEPT !.basic_info = Some(San), !.directors = Some(2), !.shareholders = Some(1),
                   !.recent_performance = calculatePerformance(w),
                   !.news_coverage = Some(1),
                   !.risk_profile = Some(assessCompanyRisk(San, <<>>))] :
     w \in SummaryWindows}
    \cup {[NoEntry EXCEPT !.symbol = Some(Bbva.symbol),
                          !.error = Some(<<"Could not find or analyze company: ">>)]}

InitSummary ==
  /\ input \in ListsUpTo(SummaryEntries, MaxCompanies + 1)
  /\ output = None
  /\ DispatcherIdle

ApplySummary ==
  /\ output = None
  /\ output' = Some(generateComparisonSummary(input))
  /\ UNCHANGED <<input, dispVars>>

NextSummary == ApplySummary
SpecSummary == InitSummary /\ [][NextSummary]_vars

\* the successfully analysed entries that have performance data
WithPerformance ==
  {i \in 1..Len(input) : ~IsSome(input[i].error) /\ IsSome(input[i].recent_performance)}
ChangeOf(entry) == Get(entry.recent_performance).period_change

\* C22: in the summary of compareCompanies, best_performer is a successfully
\* analysed company whose 30-day period_change is the maximum over all
\* successfully analysed companies that have performance data, for positive,
\* zero and negative period changes.
C22_BestPerformerIsMaximum ==
  (IsSome(output) /\ WithPerformance /= {}) =>
    /\ IsSome(Get(output).best_performer)
    /\ \E i \in WithPerformance : Get(Get(output).best_performer) = input[i]
    /\ \A i \in WithPerformance :
         ~RatGt(ChangeOf(input[i]), ChangeOf(Get(Get(output).best_performer)))

\* what the code guarantees: among the entries whose change is not zero the
\* best performer has the greatest change
C22_MaximumOfNonZeroChanges ==
  (IsSome(output) /\ \E i \in WithPerformance : ChangeOf(input[i]).num /= 0) =>
    /\ \E i \in WithPerformance :
         Get(Get(output).best_performer) = input[i] /\ ChangeOf(input[i]).num /= 0
    /\ \A i \in WithPerformance :
         ChangeOf(input[i]).num /= 0
           => ~RatGt(ChangeOf(input[i]), ChangeOf(Get(Get(output).best_performer)))

\* a flat company loses to a falling one
C22_FlatLosesToFalling ==
  (IsSome(output) /\ Len(input) = 2
     /\ input[1].recent_performance = calculatePerformance(<<Price(100), Price(100)>>)
     /\ input[2].recent_performance = calculatePerformance(<<Price(95), Price(100)>>))
    => Get(Get(output).best_performer) = input[2]

-----------------------------------------------------------------------------
(* analyzePriceTrend over windows whose change is below, at and above the   *)
(* 5% thresholds                                                            *)

MaxWindow == 3
TrendCloses == {94, 95, 100, 105, 106}

InitTrend ==
  /\ input \in ListsUpTo({Price(c) : c \in TrendCloses}, MaxWindow)
  /\ output = None
  /\ DispatcherIdle

ApplyTrend ==
  /\ output = None
  /\ output' = Some(analyzePriceTrend(input))
  /\ UNCHANGED <<input, dispVars>>

NextTrend == ApplyTrend
SpecTrend == InitTrend /\ [][NextTrend]_vars

\* (latest close - oldest close) / oldest close, index 1 = most recent
WindowChange == Rat(input[1].close - input[Len(input)].close, input[Len(input)].close)
AtLeast(a, b) == RatGt(a, b) \/ RatEq(a, b)

\* C23: for every window of at least 2 closes the direction is upward iff the
\* window change is >= +5%, downward iff it is <= -5%, and sideways
\* otherwise; exactly +5% is upward and exactly -5% is downward.
C23_DirectionThresholdsInclusive ==
  (IsSome(output) /\ Len(input) >= 2) =>
    /\ IsSome(Get(output))
    /\ Get(Get(output)).direction =
         IF AtLeast(WindowChange, Rat(5, 100)) THEN "upward"
         ELSE IF AtLeast(Rat(-5, 100), WindowChange) THEN "downward"
         ELSE "sideways"

\* what the code computes: both thresholds are strict
C23_DirectionThresholdsStrict ==
  (IsSome(output) /\ Len(input) >= 2) =>
    /\ IsSome(Get(output))
    /\ Get(Get(output)).direction =
         IF RatGt(WindowChange, Rat(5, 100)) THEN "upward"
         ELSE IF RatGt(Rat(-5, 100), WindowChange) THEN "downward"
         ELSE "sideways"

\* a change of exactly +5% or exactly -5% is reported sideways
C23_ExactlyFivePercentSideways ==
  (IsSome(output) /\ Len(input) >= 2
     /\ (RatEq(WindowChange, Rat(5, 100)) \/ RatEq(WindowChange, Rat(-5, 100))))
    => Get(Get(output)).direction = "sideways"

-----------------------------------------------------------------------------
(* analyzeTrends('market_trend') over company lists longer than the scan    *)
(* caps                                                                     *)

MaxListed == 21
IdDigits == <<"0", "1", "2", "3", "4", "5", "6", "7", "8", "9">>

\* the i-th company of the remote list
ListedCompany(i) ==
  Company(<<IdDigits[(i \div 10) + 1], IdDigits[(i % 10) + 1]>>,
          <<"C", IdDigits[(i \div 10) + 1], IdDigits[(i % 10) + 1]>>,
          <<"c", IdDigits[(i \div 10) + 1], IdDigits[(i % 10) + 1]>>,
          Some(IF i % 2 = 0 THEN <<"E", "n", "e", "r", "g", "y">> ELSE <<"B", "a", "n", "k", "i", "n", "g">>), Some(5), None)
Listed(n) == [i \in 1..n |-> ListedCompany(i)]

\* what the price endpoint may answer for one company: two points, one
\* point, or a failure
PriceAnswers ==
  {HttpOk([NoBody EXCEPT !.historicalData = Some(<<Price(3), Price(2)>>)]),
   HttpOk([NoBody EXCEPT !.historicalData = Some(<<Price(3)>>)]),
   HttpFail("500", "Internal Server Error")}
HasTwoPoints(answer) ==
  answer = HttpOk([NoBody EXCEPT !.historicalData = Some(<<Price(3), Price(2)>>)])

\* the answer the price endpoint gives for the k-th company asked about
PriceAnswer(in, k) == in.pattern[((k - 1) % Len(in.pattern)) + 1]

\* the remote service: the company list to every list request, the k-th
\* price answer to the k-th price request (getHistoricalPrices fetches the
\* list, then the prices)
MarketOracle(in) ==
  [i \in 1..(2 * MaxListed + 2) |->
     IF i = 1 \/ i % 2 = 0 THEN HttpOk(CompaniesBody(Listed(in.n)))
     ELSE PriceAnswer(in, (i - 1) \div 2)]

InitMarket ==
  /\ input \in [n : 0..MaxListed, pattern : ListsUpTo(PriceAnswers, MaxPattern - 1) \ {<<>>}]
  /\ output = None
  /\ DispatcherIdle

ApplyMarket ==
  /\ output = None
  /\ Bind(analyzeTrends(Some("market_trend"), None, 30, FALSE, Start(MarketOracle(input))),
          LAMBDA r : output' = Some([k |-> r.k, v |-> r.v, tr |-> r.s.tr]))
  /\ UNCHANGED <<input, dispVars>>

NextMarket == ApplyMarket
SpecMarket == InitMarket /\ [][NextMarket]_vars

\* the ids historical prices were requested for, in order
PriceRequests ==
  SelectSeq(Get(output).tr,
            LAMBDA e : e.ev = "call" /\ e.what = "getHistoricalPrices")
FirstOf(n, cap) == IF n < cap THEN n ELSE cap
ScansFirst(cap) ==
  /\ Get(output).k = "ok"
  /\ Len(PriceRequests) = FirstOf(input.n, cap)
  /\ \A k \in 1..Len(PriceRequests) : PriceRequests[k].msg = Some(ListedCompany(k).id)
  /\ Get(Get(output).v.trend_data).companies_analyzed =
       Cardinality({k \in 1..FirstOf(input.n, cap) : HasTwoPoints(PriceAnswer(input, k))})

\* C24: market_trend requests historical prices for each of the first
\* min(20, n) companies of the list, and companies_analyzed is the number of
\* those with at least 2 price points (so it can reach 20).
C24_ScansFirstTwenty == IsSome(output) => ScansFirst(MarketScanCap)

\* what the code does: the scan stops after the first 10 companies
C24_ScansFirstTen == IsSome(output) => ScansFirst(PerformanceScanCap)

\* companies_analyzed never exceeds 10, however long the list
C24_AtMostTenAnalyzed ==
  IsSome(output) =>
    Get(Get(output).v.trend_data).companies_analyzed <= PerformanceScanCap

-----------------------------------------------------------------------------
(* assessInvestmentRisk run twice: two targets, two behaviours of the       *)
(* remote service, the same risk_types                                      *)

RiskLookups == 2             \* assessInvestmentRisk: the company lookup, then the sector lookup

RiskTargets == {Some(<<"S", "A", "N">>), Some(<<"B", "a", "n", "k", "i", "n", "g">>), Some(<<"Z", "Z", "Z">>)}
RiskResponses ==
  {HttpFail("500", "Internal Server Error"), NetFail, HttpOk(NoBody), HttpOk(FullBody)}
RiskTypeLists ==
  {<<"all">>, <<"market_risk">>, <<"governance_risk", "liquidity_risk">>,
   <<"sector_risk", "concentration_risk", "sector_risk">>, <<"other">>}
RiskRuns == [target : RiskTargets, responses : [1..RiskLookups -> RiskResponses]]

InitRisk ==
  /\ input \in [a : RiskRuns, b : RiskRuns, risk_types : RiskTypeLists]
  /\ output = None
  /\ DispatcherIdle

RunRisk(run, riskTypes) ==
  Bind(assessInvestmentRisk(run.target, riskTypes, Start(run.responses)), LAMBDA r :
      [k |-> r.k, v |-> r.v, tr |-> r.s.tr])

ApplyRisk ==
  /\ output = None
  /\ output' = Some([a |-> RunRisk(input.a, input.risk_types),
                     b |-> RunRisk(input.b, input.risk_types)])
  /\ UNCHANGED <<input, dispVars>>

NextRisk == ApplyRisk
SpecRisk == InitRisk /\ [][NextRisk]_vars

\* the scores of the requested dimensions
RequestedScores ==
  [i \in 1..Len(RiskBreakdown(input.risk_types)) |->
     RiskBreakdown(input.risk_types)[i].risk.score]
\* how a run classified its target
ClassifiedAs(run) ==
  {run.tr[i].what : i \in {j \in 1..Len(run.tr) : run.tr[j].ev = "classified"}}

\* C25: for any two targets and any two behaviours of the remote service
\* (failures included), assessInvestmentRisk called with the same risk_types
\* returns the same risk_breakdown, the same overall_risk_score (the mean of
\* the requested dimensions' scores) and the same recommendations.
C25_RiskIndependentOfTargetAndData ==
  IsSome(output) =>
    /\ Get(output).a.k = "ok" /\ Get(output).b.k = "ok"
    /\ Get(output).a.v.risk_breakdown = Get(output).b.v.risk_breakdown
    /\ Get(output).a.v.overall_risk_score = Get(output).b.v.overall_risk_score
    /\ Get(output).a.v.recommendations = Get(output).b.v.recommendations
    /\ RequestedScores /= <<>> =>
         RatEq(RatMul(Get(output).a.v.overall_risk_score, Rat(Len(RequestedScores), 1)),
               RatSum(RequestedScores))

\* two runs that differ in target, in what the remote service answered and in
\* how the target was classified
C25_Witness ==
  /\ IsSome(output)
  /\ input.risk_types = <<"all">>
  /\ input.a.target = Some(<<"S", "A", "N">>) /\ input.b.target = Some(<<"Z", "Z", "Z">>)
  /\ input.a.responses[1] = HttpOk(FullBody) /\ input.b.responses[1] = NetFail
  /\ input.b.responses[2] = HttpFail("500", "Internal Server Error")
  /\ ClassifiedAs(Get(output).a) = {"company"}
  /\ ClassifiedAs(Get(output).b) = {"portfolio"}
  /\ Get(output).a.v.overall_risk_score = Rat(49, 10)


\* the target resolves as a company symbol, or as a sector, of the full list
MatchesSymbol(target) == \E c \in {San, Bbva} : Some(c.symbol) = target
MatchesSector(target) == \E c \in {San, Bbva} : SectorMatches(c, Get(target))
LookupFailed(response) == response.k /= "ok"

\* C26: assessInvestmentRisk classifies its target as company only if the
\* target matches a company symbol, as sector if it matches no symbol but at
\* least one company's sector, and as portfolio otherwise; the sector lookup
\* is attempted whenever the company lookup finds no company.
C26_ClassifiedByFirstResolution ==
  (IsSome(output) /\ \A i \in 1..RiskLookups : input.a.responses[i] = HttpOk(FullBody)) =>
    /\ ClassifiedAs(Get(output).a) =
         {IF MatchesSymbol(input.a.target) THEN "company"
          ELSE IF MatchesSector(input.a.target) THEN "sector"
          ELSE "portfolio"}
    /\ ~MatchesSymbol(input.a.target) => Entered(Get(output).a.tr, "getCompaniesBySector")

\* what the code does: company unless the company lookup throws, sector
\* unless the sector lookup throws too; the sector lookup is attempted only
\* after a failed company lookup
C26_ClassifiedByLookupFailure ==
  IsSome(output) =>
    /\ ClassifiedAs(Get(output).a) =
         {IF ~LookupFailed(input.a.responses[1]) THEN "company"
          ELSE IF ~LookupFailed(input.a.responses[2]) THEN "sector"
          ELSE "portfolio"}
    /\ Entered(Get(output).a.tr, "getCompaniesBySector")
         <=> LookupFailed(input.a.responses[1])

\* a sector name and an unknown name are classified company when the list
\* is served
C26_SectorNameClassifiedCompany ==
  (IsSome(output) /\ input.a.responses[1] = HttpOk(FullBody)
     /\ input.a.target \in {Some(<<"B", "a", "n", "k", "i", "n", "g">>), Some(<<"Z", "Z", "Z">>)})
    => /\ ClassifiedAs(Get(output).a) = {"company"}
       /\ ~Entered(Get(output).a.tr, "getCompaniesBySector")

-----------------------------------------------------------------------------
(* getTopSector over scored lists whose sectors tie                         *)

MaxOpportunities == 4
\* the sector of a scored opportunity: two named sectors, or none
OpportunitySectors == {Some(<<"B", "a", "n", "k", "i", "n", "g">>), Some(<<"E", "n", "e", "r", "g", "y">>), None}

InitTopSector ==
  /\ input \in ListsUpTo({[symbol |-> <<"S", "A", "N">>, sector |-> sector] : sector \in OpportunitySectors},
                         MaxOpportunities)
  /\ output = None
  /\ DispatcherIdle

ApplyTopSector ==
  /\ output = None
  /\ output' = Some(getTopSector(input))
  /\ UNCHANGED <<input, dispVars>>

NextTopSector == ApplyTopSector
SpecTopSector == InitTopSector /\ [][NextTopSector]_vars

\* how many scored opportunities fall under a sector
SectorCount(sector) == Cardinality({i \in 1..Len(input) : SectorOrOther(input[i]) = sector})
\* the positions whose sector has the greatest count
Greatest ==
  {i \in 1..Len(input) :
     \A j \in 1..Len(input) :
       SectorCount(SectorOrOther(input[i])) >= SectorCount(SectorOrOther(input[j]))}

\* C27: top_scoring_sector is a sector with the greatest number of scored
\* opportunities (no sector counted under 'Other'), and of several sectors
\* that tie for the greatest count the one that appears first in the scored
\* list is reported, also when one of the tied sectors is 'Other'.
C27_FirstOfGreatestCount ==
  (IsSome(output) /\ input /= <<>>) =>
    Get(output) = SectorOrOther(input[CHOOSE i \in Greatest : \A j \in Greatest : i <= j])

\* what the code does: a sector of the greatest count, 'Other' whenever
\* 'Other' is among them, and otherwise the first of them
C27_OtherWinsTies ==
  (IsSome(output) /\ input /= <<>>) =>
    /\ \E i \in Greatest : Get(output) = SectorOrOther(input[i])
    /\ IF \E i \in Greatest : SectorOrOther(input[i]) = <<"O", "t", "h", "e", "r">>
       THEN Get(output) = <<"O", "t", "h", "e", "r">>
       ELSE Get(output) = SectorOrOther(input[CHOOSE i \in Greatest : \A j \in Greatest : i <= j])

\* a named sector first, then a company without sector: 'Other' is reported
C27_OtherReportedAfterNamedSector ==
  (IsSome(output) /\ Len(input) = 2
     /\ input[1].sector = Some(<<"B", "a", "n", "k", "i", "n", "g">>) /\ input[2].sector = None)
    => Get(output) = <<"O", "t", "h", "e", "r">>

-----------------------------------------------------------------------------
(* getCompaniesWithPERatio over companies whose P/E fields are absent, zero *)
(* or positive                                                              *)

PECompanies ==
  {[San EXCEPT !.price_to_earnings = pte, !.pe_ratio = per] :
     pte \in {None, Some(0), Some(15)}, per \in {None, Some(0), Some(30)}}

InitPE ==
  /\ input \in [companies : ListsUpTo(PECompanies, MaxCompanies),
                minPE : {None, Some(0), Some(10)},
                maxPE : {None, Some(0), Some(20)}]
  /\ output = None
  /\ DispatcherIdle

ApplyPE ==
  /\ output = None
  /\ output' = Some(Returned(getCompaniesWithPERatio(
                      input.minPE, input.maxPE,
                      Start(<<HttpOk(CompaniesBody(input.companies))>>))))
  /\ UNCHANGED <<input, dispVars>>

NextPE == ApplyPE
SpecPE == InitPE /\ [][NextPE]_vars

\* price_to_earnings if defined, otherwise pe_ratio
PEValue(company) ==
  IF IsSome(company.price_to_earnings) THEN company.price_to_earnings ELSE company.pe_ratio
\* the P/E value is defined and within each provided bound
WithinBounds(company) ==
  /\ IsSome(PEValue(company))
  /\ IsSome(input.minPE) => Get(PEValue(company)) >= Get(input.minPE)
  /\ IsSome(input.maxPE) => Get(PEValue(company)) <= Get(input.maxPE)

\* C28: getCompaniesWithPERatio returns exactly the companies whose P/E value
\* (price_to_earnings if defined, otherwise pe_ratio) is defined and satisfies
\* each provided bound; a defined P/E value of 0 counts as defined, and a
\* bound that is not provided excludes nothing.
C28_ExactlyCompaniesWithinBounds ==
  IsSome(output) =>
    /\ Get(output).k = "ok"
    /\ Get(output).v = SelectSeq(input.companies, WithinBounds)

\* what the code guarantees: the claim for lists in which no company has a
\* price_to_earnings of 0
C28_ExactUnlessZeroPriceToEarnings ==
  (IsSome(output)
     /\ \A i \in 1..Len(input.companies) : input.companies[i].price_to_earnings /= Some(0))
    => /\ Get(output).k = "ok"
       /\ Get(output).v = SelectSeq(input.companies, WithinBounds)

\* a company with price_to_earnings 0 and no pe_ratio is never returned, and
\* one with price_to_earnings 0 and pe_ratio 30 is filtered by the 30
C28_ZeroPriceToEarningsSkipped ==
  (IsSome(output) /\ Len(input.companies) = 1
     /\ input.companies[1].price_to_earnings = Some(0))
    => Get(output).v =
         (IF input.companies[1].pe_ratio = None THEN <<>>
          ELSE SelectSeq(input.companies,
                         LAMBDA c : /\ IsSome(input.minPE) => Get(c.pe_ratio) >= Get(input.minPE)
                                    /\ IsSome(input.maxPE) => Get(c.pe_ratio) <= Get(input.maxPE)))

-----------------------------------------------------------------------------
(* The red flags of the network analysis over boards that share directors   *)

Seat(name) == [name |-> name, position |-> <<"D">>]
\* the boards a company may have: no director, one, three, four or five
FlagBoards ==
  {<<>>, <<Seat(<<"Z">>)>>, <<Seat(<<"W">>), Seat(<<"X">>), Seat(<<"Y">>)>>,
   <<Seat(<<"W">>), Seat(<<"X">>), Seat(<<"Y">>), Seat(<<"Z">>)>>,
   <<Seat(<<"W">>), Seat(<<"X">>), Seat(<<"Y">>), Seat(<<"Z">>), Seat(<<"V">>)>>}

\* two companies with boards, whose names may or may not contain a symbol,
\* and optionally a third without directors whose symbol 'A' occurs in names
FlagCompanies(in) ==
  << Company(<<"1">>, <<"A", "B">>, in.nameA, Some(<<"B", "a", "n", "k", "i", "n", "g">>), Some(5), Some(in.boardA)),
     Company(<<"2">>, <<"C", "D">>, in.nameB, Some(<<"E", "n", "e", "r", "g", "y">>), Some(5), Some(in.boardB)) >>
    \o (IF in.third THEN <<Company(<<"3">>, <<"A">>, <<"G", "a", "m", "m", "a">>, Some(<<"E", "n", "e", "r", "g", "y">>), Some(5), Some(<<>>))>>
        ELSE <<>>)

InitRedFlags ==
  /\ input \in [nameA : {<<"A", "l", "p", "h", "a">>, <<"A", "B", " ", "C", "o", "r", "p">>}, nameB : {<<"B", "e", "t", "a">>, <<"A", "B", "C", "D">>},
                boardA : FlagBoards, boardB : FlagBoards, third : BOOLEAN]
  /\ output = None
  /\ DispatcherIdle

ApplyRedFlags ==
  /\ output = None
  /\ output' = Some(Returned(getComplexNetworkAnalysis(
                      Start([i \in 1..3 |-> HttpOk(CompaniesBody(FlagCompanies(input)))]))))
  /\ UNCHANGED <<input, dispVars>>

NextRedFlags == ApplyRedFlags
SpecRedFlags == InitRedFlags /\ [][NextRedFlags]_vars

\* the director names on a company's board
BoardNames(company) ==
  {Get(company.directors)[i].name : i \in 1..Len(Get(company.directors))}
\* the interlocked directors (names on at least 2 boards) on a company's board
OwnInterlocked(company) ==
  {name \in BoardNames(company) :
     Cardinality({i \in 1..Len(FlagCompanies(input)) :
                    name \in BoardNames(FlagCompanies(input)[i])}) >= 2}
InterlockFlagged(symbol) ==
  \E i \in 1..Len(Get(output).v.governance_risk_factors.governance_red_flags) :
    /\ Get(output).v.governance_risk_factors.governance_red_flags[i].company = symbol
    /\ Get(output).v.governance_risk_factors.governance_red_flags[i].risk_type
         = "high_director_interlocks"
    /\ Get(output).v.governance_risk_factors.governance_red_flags[i].severity = "medium"

\* C29: a company receives the medium-severity high_director_interlocks red
\* flag iff more than 3 interlocked directors sit on its own board; the flag
\* never depends on whether the company's symbol occurs as a substring of
\* other companies' names.
C29_FlagIffOwnInterlocks ==
  IsSome(output) =>
    /\ Get(output).k = "ok"
    /\ \A i \in 1..Len(FlagCompanies(input)) :
         InterlockFlagged(FlagCompanies(input)[i].symbol)
           <=> Cardinality(OwnInterlocked(FlagCompanies(input)[i])) > InterlockFlagAbove

\* what the code does: a flagged company's symbol occurs in the name of a
\* company that shares directors, whether or not the company has directors
C29_FlagNeedsSymbolInNames ==
  IsSome(output) =>
    \A i \in 1..Len(FlagCompanies(input)) :
      InterlockFlagged(FlagCompanies(input)[i].symbol)
        => \E j \in 1..Len(FlagCompanies(input)) :
             includes(FlagCompanies(input)[j].name, FlagCompanies(input)[i].symbol)

\* two boards sharing four directors are not flagged when no name contains
\* their symbols
C29_SharedBoardsNotFlagged ==
  (IsSome(output) /\ input.nameA = <<"A", "l", "p", "h", "a">> /\ input.nameB = <<"B", "e", "t", "a">>
     /\ Len(input.boardA) >= 4 /\ Len(input.boardB) >= 4)
    => /\ Cardinality(OwnInterlocked(FlagCompanies(input)[1])) > InterlockFlagAbove
       /\ ~InterlockFlagged(<<"A", "B">>) /\ ~InterlockFlagged(<<"C", "D">>)

\* a company without directors is flagged when its symbol occurs in the
\* names of companies that share four directors
C29_CompanyWithoutDirectorsFlagged ==
  (IsSome(output) /\ input.third /\ Len(input.boardA) >= 4 /\ Len(input.boardB) >= 4)
    => InterlockFlagged(<<"A">>)

-----------------------------------------------------------------------------
(* calculateMarketConcentration over sector totals whose index lies just    *)
(* above a threshold                                                        *)

\* sector totals: (31, 31, 31, 30) gives an index of 2500.49..., and
\* (16, 16, 14, 14, 14, 11, 7) one of 1500.47...
RoundingCaps == {0, 7, 11, 14, 16, 30, 31}
\* the lists of totals, largest first, as getSectorCorrelationAnalysis sorts
\* them
SortedRoundingCaps ==
  LET ofLen[n \in 0..MaxSectors] ==
        IF n = 0 THEN {<<>>}
        ELSE {Append(caps, c) : <<caps, c>> \in
                {x \in ofLen[n - 1] \X RoundingCaps :
                   x[1] = <<>> \/ x[2] <= x[1][Len(x[1])]}}
  IN  UNION {ofLen[n] : n \in 0..MaxSectors}

InitRounding ==
  /\ input \in SortedRoundingCaps
  /\ output = None
  /\ DispatcherIdle

ApplyRounding ==
  /\ output = None
  /\ output' = Some([result |-> calculateMarketConcentration(SectorTotals(input, 1)),
                     hhi |-> IF SumSeq(input) = 0 THEN Rat(0, 1)
                             ELSE HhiSum(SectorTotals(input, 1), SumSeq(input))])
  /\ UNCHANGED <<input, dispVars>>

NextRounding == ApplyRounding
SpecRounding == InitRounding /\ [][NextRounding]_vars

\* the reported index and the reported level agree with the thresholds
IndexAgreesWithLevel(result) ==
  /\ result.concentration_level = "highly_concentrated" <=> result.hhi_index > HighlyAbove
  /\ result.concentration_level = "moderately_concentrated"
       <=> (ModeratelyAbove < result.hhi_index /\ result.hhi_index <= HighlyAbove)
\* the index lies above the threshold by less than one half
JustAbove(hhi, threshold) ==
  RatGt(hhi, Rat(threshold, 1)) /\ RatGt(Rat(2 * threshold + 1, 2), hhi)

\* C30: for sector totals with positive combined market cap the reported
\* hhi_index (the rounded HHI) and the reported concentration_level agree
\* with the thresholds (highly_concentrated iff hhi_index > 2500,
\* moderately_concentrated iff 1500 < hhi_index <= 2500); for a combined
\* market cap of 0 the result is hhi_index 0 with level 'unknown'.
C30_ReportedIndexAgreesWithLevel ==
  IsSome(output) =>
    IF SumSeq(input) = 0
    THEN Get(output).result.hhi_index = 0 /\ Get(output).result.concentration_level = "unknown"
    ELSE IndexAgreesWithLevel(Get(output).result)

\* what the code guarantees: the two agree unless the index before rounding
\* lies just above a threshold, and then they disagree
C30_AgreesUnlessJustAboveThreshold ==
  IsSome(output) =>
    IF SumSeq(input) = 0
    THEN Get(output).result.hhi_index = 0 /\ Get(output).result.concentration_level = "unknown"
    ELSE IndexAgreesWithLevel(Get(output).result)
           <=> ~(JustAbove(Get(output).hhi, HighlyAbove)
                   \/ JustAbove(Get(output).hhi, ModeratelyAbove))

\* the totals (31, 31, 31, 30) are reported with index 2500 and level
\* highly_concentrated
C30_Index2500HighlyConcentrated ==
  (IsSome(output) /\ input = <<31, 31, 31, 30>>)
    => /\ Get(output).result.hhi_index = 2500
       /\ Get(output).result.concentration_level = "highly_concentrated"

=============================================================================
